---- MODULE Spec2Model ----
(***************************************************************************)
(* Model of the igwatch disclosure watcher: the JSON-backed dedup store    *)
(* (app/utils/state.py) and the discovery loop that it gates               *)
(* (app/main.py).                                                          *)
(*                                                                         *)
(* Text is modelled character by character: a string is a sequence of      *)
(* one-character strings, a file is a sequence of bytes.  The alphabet is  *)
(* ASCII, so one character is one byte under every encoding Python can     *)
(* pick for the temporary file, plus one byte that is not valid UTF-8.     *)
(***************************************************************************)
EXTENDS Integers, Sequences, FiniteSets, TLC

\* ------------------------------------------------------------------------
\* Characters
\* ------------------------------------------------------------------------
LB == "["
RB == "]"
LC == "{"
RC == "}"
DQ == "\""
SQ == "'"
BS == "\\"
CM == ","
CL == ":"
SP == " "
NL == "\n"
\* a byte that cannot occur in UTF-8 text (0xFF)
BAD == "0xFF"

Letters == {"a", "e", "n", "s", "x"}
Char == {LB, RB, LC, RC, DQ, SQ, BS, CM, CL, SP, NL} \cup Letters

\* code point of a character (the order sorted() uses)
Ord(c) ==
  CASE c = NL -> 10
    [] c = SP -> 32
    [] c = DQ -> 34
    [] c = SQ -> 39
    [] c = CM -> 44
    [] c = CL -> 58
    [] c = LB -> 91
    [] c = BS -> 92
    [] c = RB -> 93
    [] c = "a" -> 97
    [] c = "e" -> 101
    [] c = "n" -> 110
    [] c = "s" -> 115
    [] c = "x" -> 120
    [] c = LC -> 123
    [] c = RC -> 125
    [] OTHER -> 255

\* str.strip() / json whitespace, restricted to the alphabet
IsSpace(c) == c \in {SP, NL}

\* ------------------------------------------------------------------------
\* Python string helpers
\* ------------------------------------------------------------------------
RECURSIVE LStrip(_)
LStrip(s) ==
  IF s # <<>> /\ IsSpace(Head(s)) THEN LStrip(Tail(s)) ELSE s

RECURSIVE RStrip(_)
RStrip(s) ==
  IF s # <<>> /\ IsSpace(s[Len(s)]) THEN RStrip(SubSeq(s, 1, Len(s) - 1)) ELSE s

\* str.strip()
Strip(s) == RStrip(LStrip(s))

\* s.split("\n"), by halves: the last piece of the left half and the first
\* piece of the right half are one piece
RECURSIVE SplitNL(_)
SplitNL(s) ==
  IF s = <<>> THEN << <<>> >>
  ELSE IF Len(s) = 1 THEN (IF s[1] = NL THEN << <<>>, <<>> >> ELSE <<s>>)
  ELSE LET h == Len(s) \div 2
           l == SplitNL(SubSeq(s, 1, h))
           r == SplitNL(SubSeq(s, h + 1, Len(s)))
       IN SubSeq(l, 1, Len(l) - 1) \o <<l[Len(l)] \o r[1]>> \o Tail(r)

\* str.splitlines(): a final line break does not open another line
SplitLines(s) ==
  LET p == SplitNL(s)
  IN IF p[Len(p)] = <<>> THEN SubSeq(p, 1, Len(p) - 1) ELSE p

RECURSIVE Concat(_)
Concat(ss) == IF ss = <<>> THEN <<>> ELSE Head(ss) \o Concat(Tail(ss))

\* sep.join(ss)
RECURSIVE Join(_, _)
Join(sep, ss) ==
  IF ss = <<>> THEN <<>>
  ELSE IF Len(ss) = 1 THEN ss[1]
  ELSE ss[1] \o sep \o Join(sep, Tail(ss))

\* s < t in Python's string order (code points, shorter prefix first)
RECURSIVE StrLess(_, _)
StrLess(s, t) ==
  IF t = <<>> THEN FALSE
  ELSE IF s = <<>> THEN TRUE
  ELSE IF Head(s) = Head(t) THEN StrLess(Tail(s), Tail(t))
  ELSE Ord(Head(s)) < Ord(Head(t))

\* sorted(S) for a set of strings
RECURSIVE Sorted(_)
Sorted(S) ==
  IF S = {} THEN <<>>
  ELSE LET m == CHOOSE x \in S : \A y \in S \ {x} : StrLess(x, y)
       IN <<m>> \o Sorted(S \ {m})

Range(f) == {f[i] : i \in DOMAIN f}

\* ------------------------------------------------------------------------
\* json.dumps(list of str, ensure_ascii=False)
\* ------------------------------------------------------------------------
\* json.encoder: the escape of one character inside a string literal
EscapeChar(c) ==
  CASE c = DQ -> <<BS, DQ>>
    [] c = BS -> <<BS, BS>>
    [] c = NL -> <<BS, "n">>
    [] OTHER -> <<c>>

RECURSIVE EscapeBody(_)
EscapeBody(s) ==
  IF s = <<>> THEN <<>> ELSE EscapeChar(Head(s)) \o EscapeBody(Tail(s))

EncodeStr(s) == <<DQ>> \o EscapeBody(s) \o <<DQ>>

\* json.dumps of a list of strings, default separators
Dumps(list) ==
  <<LB>> \o Join(<<CM, SP>>, [i \in 1..Len(list) |-> EncodeStr(list[i])]) \o <<RB>>

\* ------------------------------------------------------------------------
\* json.loads: values are records; t is "str", "arr" or "obj".  Numbers and
\* the literals true/false/null/NaN/Infinity need characters outside Char.
\* ------------------------------------------------------------------------
JStr(s)        == [t |-> "str", s |-> s,    keys |-> <<>>, items |-> <<>>]
JArr(items)    == [t |-> "arr", s |-> <<>>, keys |-> <<>>, items |-> items]
JObj(ks, vs)   == [t |-> "obj", s |-> <<>>, keys |-> ks,   items |-> vs]

Fail        == [ok |-> FALSE, val |-> JStr(<<>>), pos |-> 0]
Ok(v, p)    == [ok |-> TRUE,  val |-> v,          pos |-> p]

At(s, i) == IF i >= 1 /\ i <= Len(s) THEN s[i] ELSE "EOF"

RECURSIVE SkipWs(_, _)
SkipWs(s, i) == IF IsSpace(At(s, i)) THEN SkipWs(s, i + 1) ELSE i

\* py_scanstring, strict: s[j..] is the text after the opening quote
RECURSIVE ScanString(_, _, _)
ScanString(s, j, acc) ==
  LET c == At(s, j) IN
  IF c = "EOF" THEN Fail
  ELSE IF c = DQ THEN Ok(JStr(acc), j + 1)
  ELSE IF c = NL THEN Fail
  ELSE IF c = BS THEN
    LET e == At(s, j + 1) IN
    IF e \in {DQ, BS} THEN ScanString(s, j + 2, Append(acc, e))
    ELSE IF e = "n" THEN ScanString(s, j + 2, Append(acc, NL))
    ELSE Fail
  ELSE ScanString(s, j + 1, Append(acc, c))

\* dict[key] = value: a repeated key keeps its place and takes the new value
DictPut(ks, vs, k, v) ==
  IF \E i \in 1..Len(ks) : ks[i] = k
  THEN [keys |-> ks,
        items |-> [i \in 1..Len(vs) |-> IF ks[i] = k THEN v ELSE vs[i]]]
  ELSE [keys |-> Append(ks, k), items |-> Append(vs, v)]

RECURSIVE ScanValue(_, _)
RECURSIVE ScanArrayRest(_, _, _)
RECURSIVE ScanObjectRest(_, _, _, _)

\* JSONArray after "[" and a first value position j
ScanArrayRest(s, j, acc) ==
  LET v == ScanValue(s, j) IN
  IF ~v.ok THEN Fail
  ELSE LET k == SkipWs(s, v.pos)
           items == Append(acc, v.val)
       IN IF At(s, k) = RB THEN Ok(JArr(items), k + 1)
          ELSE IF At(s, k) = CM THEN ScanArrayRest(s, SkipWs(s, k + 1), items)
          ELSE Fail

\* JSONObject: j is the position of a key's opening quote
ScanObjectRest(s, j, ks, vs) ==
  IF At(s, j) # DQ THEN Fail
  ELSE LET key == ScanString(s, j + 1, <<>>) IN
    IF ~key.ok THEN Fail
    ELSE LET c == SkipWs(s, key.pos) IN
      IF At(s, c) # CL THEN Fail
      ELSE LET v == ScanValue(s, SkipWs(s, c + 1)) IN
        IF ~v.ok THEN Fail
        ELSE LET d == DictPut(ks, vs, key.val.s, v.val)
                 m == SkipWs(s, v.pos)
             IN IF At(s, m) = RC THEN Ok(JObj(d.keys, d.items), m + 1)
                ELSE IF At(s, m) = CM
                  THEN ScanObjectRest(s, SkipWs(s, m + 1), d.keys, d.items)
                ELSE Fail

\* scanner.py_make_scanner._scan_once
ScanValue(s, i) ==
  LET c == At(s, i) IN
  IF c = DQ THEN ScanString(s, i + 1, <<>>)
  ELSE IF c = LB THEN
    LET j == SkipWs(s, i + 1) IN
    IF At(s, j) = RB THEN Ok(JArr(<<>>), j + 1) ELSE ScanArrayRest(s, j, <<>>)
  ELSE IF c = LC THEN
    LET j == SkipWs(s, i + 1) IN
    IF At(s, j) = RC THEN Ok(JObj(<<>>, <<>>), j + 1)
    ELSE ScanObjectRest(s, j, <<>>, <<>>)
  ELSE Fail

\* json.loads(s): one value, then only whitespace
Loads(s) ==
  LET v == ScanValue(s, SkipWs(s, 1)) IN
  IF v.ok /\ SkipWs(s, v.pos) = Len(s) + 1 THEN v ELSE Fail

\* ------------------------------------------------------------------------
\* str() of a decoded JSON value (set(map(str, data)))
\* ------------------------------------------------------------------------
\* repr() of a str: no character of Char but "'" changes the quote style
ReprChar(c, q) ==
  CASE c = BS -> <<BS, BS>>
    [] c = NL -> <<BS, "n">>
    [] c = q  -> <<BS, q>>
    [] OTHER -> <<c>>

ReprStr(s) ==
  LET hasSQ == \E i \in 1..Len(s) : s[i] = SQ
      hasDQ == \E i \in 1..Len(s) : s[i] = DQ
      q == IF hasSQ /\ ~hasDQ THEN DQ ELSE SQ
  IN <<q>> \o Concat([i \in 1..Len(s) |-> ReprChar(s[i], q)]) \o <<q>>

RECURSIVE PyRepr(_)
PyRepr(v) ==
  IF v.t = "str" THEN ReprStr(v.s)
  ELSE IF v.t = "arr" THEN
    <<LB>> \o Join(<<CM, SP>>, [i \in 1..Len(v.items) |-> PyRepr(v.items[i])]) \o <<RB>>
  ELSE
    <<LC>> \o Join(<<CM, SP>>,
                   [i \in 1..Len(v.items) |->
                      ReprStr(v.keys[i]) \o <<CL, SP>> \o PyRepr(v.items[i])])
           \o <<RC>>

PyStr(v) == IF v.t = "str" THEN v.s ELSE PyRepr(v)

\* ------------------------------------------------------------------------
\* State (app/utils/state.py): what _load makes of a file's bytes
\* ------------------------------------------------------------------------
\* variant: the object's field is looked up under another name
SeenKeyOther == <<"s", "e", "e", "n", "s">>

SeenKey == <<"s", "e", "e", "n">>

\* bytes.decode("utf-8") succeeds
DecodeOk(bytes) == \A i \in 1..Len(bytes) : bytes[i] # BAD

\* data["seen"] when data is a dict with a list under "seen", else a failure
SeenField(v) ==
  IF v.t = "obj" /\ \E i \in 1..Len(v.keys) : v.keys[i] = SeenKey /\ v.items[i].t = "arr"
  THEN Ok((CHOOSE x \in Range(v.items) :
             \E i \in 1..Len(v.keys) : v.keys[i] = SeenKey /\ v.items[i] = x), 0)
  ELSE Fail

\* variant: a leading quote is sniffed as JSON too
JsonLeadWide == {LB, LC, RC, DQ}

\* the first character that sends _load down the JSON branch
JsonLead == {LB, LC, RC}

\* the branch of _load that decides the result for a file holding `bytes`
LoadBranch(bytes) ==
  IF bytes = <<>> THEN "empty"
  ELSE IF ~DecodeOk(bytes) THEN "undecodable"
  ELSE LET raw == Strip(bytes) IN
    IF raw = <<>> THEN "empty"
    ELSE IF raw[1] \in JsonLead THEN
      LET d == Loads(raw) IN
      IF ~d.ok THEN "jsonerror"
      ELSE IF d.val.t = "arr" THEN "array"
      ELSE IF SeenField(d.val).ok THEN "object"
      ELSE "unexpected"
    ELSE "lines"

StrSet(arr) == {PyStr(arr.items[i]) : i \in 1..Len(arr.items)}

\* self._seen after _load read `bytes` from the file
LoadSeen(bytes) ==
  LET b == LoadBranch(bytes)
      raw == Strip(bytes)
  IN CASE b = "array"  -> StrSet(Loads(raw).val)
       [] b = "object" -> StrSet(SeenField(Loads(raw).val).val)
       [] b = "lines"  -> {x \in Range(SplitLines(raw)) : Strip(x) # <<>>}
       [] OTHER        -> {}

\* variant: save() writes one id per line instead of JSON
SaveDataLines(ids) == Join(<<NL>>, Sorted(ids)) \o <<NL>>

\* the text save() writes for a set of ids
SaveData(ids) == Dumps(Sorted(ids)) \o <<NL>>

\* ------------------------------------------------------------------------
\* State of the program
\* ------------------------------------------------------------------------
VARIABLES
  file,       \* the state file at State._path: [exists, bytes]
  bak,        \* the backup path <path>.bak: [exists, bytes]
  tmp,        \* the temporary file of the save() in progress: [exists, bytes]
  pc,         \* where the process is; "down" when it is not running
  seen,       \* State._seen
  data,       \* save()'s local: the text being written
  ans,        \* the last answer of has(key): <<>> or <<key, result>>
  config,     \* the flags of app/config.py read at import
  batch,      \* the items of watcher.poll() the for loop has not reached yet
  cur,        \* the item the loop body is working on: <<>> or <<item>>
  result,     \* what the last fetch_and_summarize of the loop did
  outcome,    \* what send_email did with cur's mail
  calls,      \* per id: how many times send_email was called for it
  fcfg,       \* the settings app/parsers/extract.py reads from config
  freq,       \* the running fetch_and_summarize call: <<>> or <<arguments>>
  resp,       \* the response r of SESSION.get: <<>> or <<response>>
  tried,      \* the transports the call has contacted, in order
  fret,       \* how the call ended: raise, None or a payload
  fpc,        \* where fetch_and_summarize is
  client,     \* the retrying client: max_retries, polite_delay
  attempts,   \* get(): the requests sent so far
  backoff,    \* get(): the local backoff, in twentieths of a second
  slept,      \* get(): the time.sleep calls so far, each [why, t]
  status,     \* get(): status_code of the last response, 0 before any
  gpc,        \* where get() is
  exc,        \* get(): the exception it raised, "" when none
  text,       \* the argument of _extract_numbers
  out,        \* what _extract_numbers returned: <<>> or <<dict>>
  lists,      \* the breakdown lists of that dict: <<>> or <<lists>>
  body,       \* the html handed to looks_like_botwall
  wall,       \* what its two copies returned: <<>> or <<net_fetchers, fetchers>>
  title_hint, \* the title handed to detect_period_key (its text is `text`)
  period,     \* what detect_period_key returned: <<>> or <<key>>
  article_root,   \* the elements under the article root: [tag, text]
  page_host,      \* the host handed to _extract_highlights
  key_highlights, \* what _extract_highlights returned: <<>> or <<list>>
  epc,            \* edgar_watcher.run: "idle", "issuers" or "filings"
  edgar_runs,     \* the calls of run so far
  issuers_left,   \* the issuers the loop of run has still to visit
  clock,          \* now, in half days from the midnight that begins today
  by_ticker,      \* the CIK the ticker map of the run gives the ticker
  rows,           \* the recent filings of the issuer still to visit
  seen_db,        \* the keys seen_db holds
  emitted,        \* per key, the calls of emit that returned: 0, 1, 2 = more
  emit_called,    \* the keys emit was called for
  gave_up,        \* the keys of filings whose two fetches failed in some turn
  mark_raised,    \* seen_db.mark has raised at least once
  last_filing     \* the row visited last: <<>> or <<[key, how]>>

fsVars   == <<file, bak, tmp>>
objVars  == <<seen, data, ans>>
loopVars == <<config, batch, cur, result, outcome, calls>>
fetchVars   == <<fcfg, freq, resp, tried, fret, fpc>>
retryVars   == <<client, attempts, backoff, slept, status, gpc, exc>>
extractVars == <<text, out, lists>>
botVars     == <<body, wall>>
periodVars  == <<title_hint, period>>
highlightVars == <<article_root, page_host, key_highlights>>
edgarVars == <<epc, edgar_runs, issuers_left, clock, by_ticker, rows, seen_db,
               emitted, emit_called, mark_raised, gave_up, last_filing>>
newVars  == <<botVars, periodVars, highlightVars, edgarVars>>
pureVars == <<fetchVars, retryVars, extractVars, newVars>>
vars     == <<file, bak, tmp, pc, seen, data, ans, config, batch, cur, result,
              outcome, calls, pureVars>>

NoFile    == [exists |-> FALSE, bytes |-> <<>>]
FileOf(b) == [exists |-> TRUE, bytes |-> b]

\* ------------------------------------------------------------------------
\* State.__init__ / _load
\* ------------------------------------------------------------------------
\* File-system calls are taken to succeed: the handlers for a rename, read
\* or write that the operating system refuses are outside the model.

\* variant: the undecodable file is left where it is
LoadFilesInPlace == UNCHANGED <<file, bak>>

\* an undecodable file is moved to <path>.bak (Path.replace overwrites an
\* older backup); every other file stays where it is
LoadFiles ==
  IF file.exists /\ LoadBranch(file.bytes) = "undecodable"
  THEN file' = NoFile /\ bak' = file
  ELSE UNCHANGED <<file, bak>>

\* what the file at the path holds for a reader: the ids _load finds in it
Persisted(f) == IF f.exists THEN LoadSeen(f.bytes) ELSE {}

Load ==
  /\ seen' = Persisted(file)
  /\ LoadFiles
  /\ UNCHANGED tmp

\* a client constructs State(path)
Construct ==
  /\ pc = "down"
  /\ Load
  /\ pc' = "fresh"
  /\ UNCHANGED <<pureVars, data, ans, loopVars>>

\* ------------------------------------------------------------------------
\* State.has / State.add
\* ------------------------------------------------------------------------
HasKey(key) == key \in seen

\* variant: add() replaces the set
AddKeyReplacing(key) == seen' = {key}

AddKey(key) == seen' = seen \cup {key}

\* ------------------------------------------------------------------------
\* State.save: mkdir, dumps, temporary file, write, close, replace
\* ------------------------------------------------------------------------
SaveBegin ==
  /\ pc \in {"fresh", "ready"}
  /\ data' = SaveData(seen)
  /\ tmp' = FileOf(<<>>)
  /\ pc' = "save_write"
  /\ ans' = <<>>
  /\ UNCHANGED <<pureVars, file, bak, seen, loopVars>>

\* variant: the text is written straight to the target path
SaveFlushInPlace ==
  /\ pc = "save_write"
  /\ \E n \in (Len(tmp.bytes) + 1)..(Len(data) - 1) :
       /\ tmp' = FileOf(SubSeq(data, 1, n))
       /\ file' = FileOf(SubSeq(data, 1, n))
  /\ UNCHANGED <<pureVars, bak, pc, objVars, loopVars>>

\* the buffered writer may push any further part of the text to the file
\* before the file is closed
SaveFlush ==
  /\ pc = "save_write"
  /\ \E n \in (Len(tmp.bytes) + 1)..(Len(data) - 1) :
       tmp' = FileOf(SubSeq(data, 1, n))
  /\ UNCHANGED <<pureVars, file, bak, pc, objVars, loopVars>>

\* leaving the with block closes the file, which writes the rest
SaveClose ==
  /\ pc = "save_write"
  /\ tmp' = FileOf(data)
  /\ pc' = "save_replace"
  /\ UNCHANGED <<pureVars, file, bak, objVars, loopVars>>

\* what tmp_path.replace(self._path) leaves at the target path
Replaced == tmp

SaveReplace ==
  /\ pc = "save_replace"
  /\ file' = Replaced
  /\ tmp' = NoFile
  /\ data' = <<>>
  /\ pc' = "ready"
  /\ UNCHANGED <<pureVars, bak, seen, ans, loopVars>>

\* ------------------------------------------------------------------------
\* The process dies (kill, KeyboardInterrupt): memory is gone, the files
\* stay.  A temporary file left behind keeps its random name and no code
\* opens it again: tmp only follows the temporary file of a running save().
\* ------------------------------------------------------------------------
Crash ==
  /\ pc # "down"
  /\ pc' = "down"
  /\ seen' = {}
  /\ data' = <<>>
  /\ ans' = <<>>
  /\ tmp' = NoFile
  /\ batch' = <<>>
  /\ cur' = <<>>
  /\ result' = "none"
  /\ outcome' = "none"
  /\ UNCHANGED <<pureVars, file, bak, config, calls>>

\* ------------------------------------------------------------------------
\* A client of State: any order of has, add and save on a constructed store
\* ------------------------------------------------------------------------
\* the keys the client uses
ClientKeys ==
  { <<>>, <<"a">>, <<"x", "a">>, <<DQ>>, <<BS, "n">>, <<"a", NL, "x">>,
    <<SP, "a">>, <<LB, "a", RB>> }

\* the most keys the client adds to one store
MaxSeen == 2

ClientHas ==
  /\ pc \in {"fresh", "ready"}
  /\ \E key \in ClientKeys : ans' = <<key, HasKey(key)>>
  /\ pc' = "ready"
  /\ UNCHANGED <<pureVars, fsVars, seen, data, loopVars>>

ClientAdd ==
  /\ pc \in {"fresh", "ready"}
  /\ \E key \in ClientKeys :
       /\ Cardinality(seen \cup {key}) <= MaxSeen
       /\ AddKey(key)
  /\ pc' = "ready"
  /\ ans' = <<>>
  /\ UNCHANGED <<pureVars, fsVars, data, loopVars>>

\* ------------------------------------------------------------------------
\* Discovery loop (app/main.py): items and filters
\* ------------------------------------------------------------------------
\* str.lower() on ASCII text
Lower(c) ==
  CASE c = "A" -> "a"
    [] c = "B" -> "b"
    [] c = "C" -> "c"
    [] c = "D" -> "d"
    [] c = "E" -> "e"
    [] c = "F" -> "f"
    [] c = "G" -> "g"
    [] c = "H" -> "h"
    [] c = "I" -> "i"
    [] c = "J" -> "j"
    [] c = "K" -> "k"
    [] c = "L" -> "l"
    [] c = "M" -> "m"
    [] c = "N" -> "n"
    [] c = "O" -> "o"
    [] c = "P" -> "p"
    [] c = "Q" -> "q"
    [] c = "R" -> "r"
    [] c = "S" -> "s"
    [] c = "T" -> "t"
    [] c = "U" -> "u"
    [] c = "V" -> "v"
    [] c = "W" -> "w"
    [] c = "X" -> "x"
    [] c = "Y" -> "y"
    [] c = "Z" -> "z"
    [] OTHER -> c

LowerStr(s) == [i \in 1..Len(s) |-> Lower(s[i])]

\* k in s
Contains(s, k) ==
  \E i \in 1..(Len(s) - Len(k) + 1) : SubSeq(s, i, i + Len(k) - 1) = k

FINANCIAL_NEWS_KEYWORDS ==
  {<<"f", "i", "n", "a", "n", "c", "i", "a", "l", " ", "r", "e", "s", "u", "l", "t", "s">>,
   <<"q", "u", "a", "r", "t", "e", "r", "l", "y", " ", "e", "a", "r", "n", "i", "n", "g", "s">>,
   <<"q", "u", "a", "r", "t", "e", "r", "l", "y", " ", "u", "p", "d", "a", "t", "e">>,
   <<"a", "n", "n", "u", "a", "l", " ", "r", "e", "p", "o", "r", "t">>,
   <<"g", "u", "i", "d", "a", "n", "c", "e", " ", "u", "p", "d", "a", "t", "e">>,
   <<"e", "a", "r", "n", "i", "n", "g", "s", " ", "c", "a", "l", "l">>,
   <<"Q", "1">>,
   <<"Q", "2">>,
   <<"Q", "3">>,
   <<"Q", "4">>,
   <<"H", "1">>,
   <<"H", "2">>,
   <<"F", "Y">>,
   <<"f", "i", "r", "s", "t", " ", "q", "u", "a", "r", "t", "e", "r">>,
   <<"s", "e", "c", "o", "n", "d", " ", "q", "u", "a", "r", "t", "e", "r">>,
   <<"t", "h", "i", "r", "d", " ", "q", "u", "a", "r", "t", "e", "r">>,
   <<"f", "o", "u", "r", "t", "h", " ", "q", "u", "a", "r", "t", "e", "r">>,
   <<"f", "u", "l", "l", " ", "y", "e", "a", "r">>,
   <<"h", "a", "l", "f", " ", "y", "e", "a", "r">>,
   <<"i", "n", "t", "e", "r", "i", "m", " ", "r", "e", "p", "o", "r", "t">>}

is_results_like(title) ==
  IF ~config.strict THEN TRUE
  ELSE \E k \in FINANCIAL_NEWS_KEYWORDS : Contains(LowerStr(title), k)

\* netloc == d or netloc.endswith("." + d), hosts and domains as label lists
HostIn(host, domains) ==
  \E d \in domains :
    \/ host = d
    \/ Len(host) > Len(d) /\ SubSeq(host, Len(host) - Len(d) + 1, Len(host)) = d

domain_allowed(url, allowed) == allowed = {} \/ HostIn(url.host, allowed)

in_good_sources(url) ==
  config.good_wire_domains = {} \/ HostIn(url.host, config.good_wire_domains)

\* re.findall with one group returns the group's text, "19" or "20": no
\* entry has four characters, so the list of years is always empty
YearCaptureLen == 2
\* datetime.now().year
ThisYear == 2026
year_guard(item) ==
  LET years == {y \in item.years : YearCaptureLen >= 4}
  IN years # {} /\ \A y \in years : y <= ThisYear - 2

\* published_ts is None, or not older than START_FROM_DAYS
is_recent(item) == item.age # "old"

\* the condition of the first `continue` of the loop body is ~Passes(item)
Passes(item) ==
  /\ domain_allowed(item.url, config.good_wire_domains)
  /\ in_good_sources(item.url)
  /\ ~year_guard(item)
  /\ is_recent(item)
  /\ is_results_like(item.title)

\* ------------------------------------------------------------------------
\* The items the watcher may return
\* ------------------------------------------------------------------------
Url(host, path) == [host |-> host, path |-> path]

Item(title, url, years, age) ==
  [source |-> "gnews", title |-> title, url |-> url, years |-> years, age |-> age]

TitleFullYear == <<"A", "c", "m", "e", " ", "F", "u", "l", "l", " ", "Y", "e", "a", "r", " ", "R", "e", "s", "u", "l", "t", "s">>
TitleQ2       == <<"A", "c", "m", "e", " ", "Q", "2">>
TitleNews     == <<"A", "c", "m", "e", " ", "n", "e", "w", "s">>

ItemA == Item(TitleFullYear, Url(<<"acme", "com">>, "/fy"), {2025}, "new")
ItemB == Item(TitleQ2, Url(<<"ir", "acme", "com">>, "/q2"), {}, "none")
ItemC == Item(TitleNews, Url(<<"junk", "net">>, "/2019"), {2019}, "new")
\* ItemA again, seen by the watcher with an old timestamp
ItemD == Item(TitleFullYear, Url(<<"acme", "com">>, "/fy"), {2025}, "old")

Items == {ItemA, ItemB, ItemC, ItemD}

\* the longest list one poll returns
MaxBatch == 2

Batches == UNION {[1..n -> Items] : n \in 0..MaxBatch}

\* state.make_id(source, url, title): State defines no such method.  Where
\* the store offers it, the spec's identity is used: a deterministic digest
\* of source|url|title
Triple(item) == <<item.source, item.url, item.title>>

make_id(item) ==
  CASE Triple(item) = Triple(ItemA) -> <<"a">>
    [] Triple(item) = Triple(ItemB) -> <<"e">>
    [] OTHER -> <<"x">>

LoopIds == {make_id(i) : i \in Items}

\* state.is_seen(item_id) and state.mark_seen(item_id, ts): has and add
is_seen(id) == HasKey(id)

mark_seen(id) == AddKey(id)

\* ------------------------------------------------------------------------
\* Discovery loop: run_discovery_mode
\* ------------------------------------------------------------------------
\* `state = State("data/seen.db")` at import, then run_discovery_mode()
Boot ==
  /\ pc = "down"
  /\ Load
  /\ pc' = "poll"
  /\ UNCHANGED <<pureVars, data, ans, loopVars>>

\* for item in watcher.poll()
Poll ==
  /\ pc = "poll"
  /\ \E b \in Batches : batch' = b
  /\ pc' = "item"
  /\ UNCHANGED <<pureVars, fsVars, objVars, config, cur, result, outcome, calls>>

\* watcher.poll() raises: "Watcher error", then the sleep
PollRaises ==
  /\ pc = "poll"
  /\ pc' = "sleep"
  /\ UNCHANGED <<pureVars, fsVars, objVars, loopVars>>

\* the iterator is exhausted
LoopEnd ==
  /\ pc = "item"
  /\ batch = <<>>
  /\ pc' = "sleep"
  /\ UNCHANGED <<pureVars, fsVars, objVars, loopVars>>

\* the filter's continue
Filtered ==
  /\ pc = "item"
  /\ batch # <<>>
  /\ ~Passes(Head(batch))
  /\ batch' = Tail(batch)
  /\ UNCHANGED <<pureVars, fsVars, objVars, pc, config, cur, result, outcome, calls>>

\* state.make_id raises AttributeError outside the inner try: the outer
\* handler logs "Watcher error" and the rest of the batch is dropped
MakeIdRaises ==
  /\ pc = "item"
  /\ batch # <<>>
  /\ Passes(Head(batch))
  /\ ~config.state_api
  /\ batch' = <<>>
  /\ pc' = "sleep"
  /\ UNCHANGED <<pureVars, fsVars, objVars, config, cur, result, outcome, calls>>

\* if state.is_seen(item_id): continue
AlreadySeen ==
  /\ pc = "item"
  /\ batch # <<>>
  /\ Passes(Head(batch))
  /\ config.state_api
  /\ is_seen(make_id(Head(batch)))
  /\ batch' = Tail(batch)
  /\ UNCHANGED <<pureVars, fsVars, objVars, pc, config, cur, result, outcome, calls>>

\* the item enters the inner try
Accept ==
  /\ pc = "item"
  /\ batch # <<>>
  /\ Passes(Head(batch))
  /\ config.state_api
  /\ ~is_seen(make_id(Head(batch)))
  /\ cur' = <<Head(batch)>>
  /\ batch' = Tail(batch)
  /\ result' = "none"
  /\ outcome' = "none"
  /\ pc' = "fetch"
  /\ UNCHANGED <<pureVars, fsVars, objVars, config, calls>>

\* variant: the error handler records the id as well
FetchRaisesMarks ==
  /\ pc = "fetch"
  /\ mark_seen(make_id(cur[1]))
  /\ result' = "raised"
  /\ cur' = <<>>
  /\ pc' = "item"
  /\ UNCHANGED <<pureVars, fsVars, data, ans, config, batch, outcome, calls>>

\* variant: the error handler gives up the rest of the batch
FetchRaisesAborts ==
  /\ pc = "fetch"
  /\ result' = "raised"
  /\ cur' = <<>>
  /\ batch' = <<>>
  /\ pc' = "sleep"
  /\ UNCHANGED <<pureVars, fsVars, objVars, config, outcome, calls>>

\* fetch_and_summarize raises: "Parse/send error", next item
FetchRaises ==
  /\ pc = "fetch"
  /\ result' = "raised"
  /\ cur' = <<>>
  /\ pc' = "item"
  /\ UNCHANGED <<pureVars, fsVars, objVars, config, batch, outcome, calls>>

\* fetch_and_summarize returns None (domain policy): _has_numbers(None), or
\* result.get when numbers are not required, raises AttributeError inside
\* the inner try
FetchNone ==
  /\ pc = "fetch"
  /\ result' = "none"
  /\ cur' = <<>>
  /\ pc' = "item"
  /\ UNCHANGED <<pureVars, fsVars, objVars, config, batch, outcome, calls>>

\* a payload without revenue and EBITDA, and REQUIRE_NUMBERS: continue
SkipNoNumbers ==
  /\ pc = "fetch"
  /\ config.require_numbers
  /\ result' = "none"
  /\ cur' = <<>>
  /\ pc' = "item"
  /\ UNCHANGED <<pureVars, fsVars, objVars, config, batch, outcome, calls>>

\* a payload the loop goes on with
FetchOk ==
  /\ pc = "fetch"
  /\ \E r \in {"numbers", "no_numbers"} :
       /\ r = "no_numbers" => ~config.require_numbers
       /\ result' = r
  /\ pc' = "send"
  /\ UNCHANGED <<pureVars, fsVars, objVars, config, batch, cur, outcome, calls>>

\* the most send_email calls counted per id
MaxCalls == 2

\* what send_email can do with a mail: log it (DRY_RUN), hand it to SMTP,
\* or log the transport's failure; it never raises
SendOutcomes == IF config.dry_run THEN {"dry_run"} ELSE {"sent", "failed"}

Send ==
  /\ pc = "send"
  /\ calls[make_id(cur[1])] < MaxCalls
  /\ calls' = [calls EXCEPT ![make_id(cur[1])] = @ + 1]
  /\ \E o \in SendOutcomes : outcome' = o
  /\ pc' = "mark"
  /\ UNCHANGED <<pureVars, fsVars, objVars, config, batch, cur, result>>

\* variant: the id is recorded only when the transport took the mail
MarkIfSent ==
  /\ pc = "mark"
  /\ IF outcome = "sent" THEN mark_seen(make_id(cur[1])) ELSE seen' = seen
  /\ cur' = <<>>
  /\ result' = "none"
  /\ outcome' = "none"
  /\ pc' = "item"
  /\ UNCHANGED <<pureVars, fsVars, data, ans, config, batch, calls>>

\* state.mark_seen(item_id, utc_ts()); time.sleep(0.5)
Mark ==
  /\ pc = "mark"
  /\ mark_seen(make_id(cur[1]))
  /\ cur' = <<>>
  /\ result' = "none"
  /\ outcome' = "none"
  /\ pc' = "item"
  /\ UNCHANGED <<pureVars, fsVars, data, ans, config, batch, calls>>

\* time.sleep(POLL_SECONDS)
Sleep ==
  /\ pc = "sleep"
  /\ pc' = "poll"
  /\ UNCHANGED <<pureVars, fsVars, objVars, loopVars>>

\* ------------------------------------------------------------------------
\* app/parsers/extract.py: URLs and domain policy
\* ------------------------------------------------------------------------
\* a URL as urlparse reads it: userinfo before the host or none, the host
\* as its labels (<<>> for a relative reference), the path, and the value
\* of the query parameter `url` (<<>> without one)
Href(user, host, path, q) ==
  [user |-> user, host |-> host, path |-> path, q |-> q]

\* urlparse(u).netloc.split(":")[0].lower(): the port is cut off and the
\* case folded; userinfo, which netloc holds too, stays in front
_host(u) ==
  IF u.host = <<>> THEN <<>>
  ELSE IF u.user THEN <<"u@" \o Head(u.host)>> \o Tail(u.host)
  ELSE u.host

is_blocked_domain(url) ==
  /\ _host(url) # <<>>
  /\ HostIn(_host(url), fcfg.BLOCK_DOMAINS)

\* ^(ir|investor|investors|corporate|press|media)\.\w[\w.-]*
FirstPartyLabels ==
  {"ir", "investor", "investors", "corporate", "press", "media"}

_is_wire_or_first_party(host) ==
  /\ host # <<>>
  /\ \/ HostIn(host, fcfg.GOOD_WIRE_DOMAINS)
     \/ Len(host) >= 2 /\ host[1] \in FirstPartyLabels

\* ------------------------------------------------------------------------
\* app/parsers/extract.py: the final URL of a response
\* ------------------------------------------------------------------------
\* soup.find("link", rel=canonical) with an href, else the og:url meta tag
_canonical_from_html(html) ==
  IF html.canonical # <<>> THEN html.canonical ELSE html.og

\* the headers the proxy may set, in the order the loop reads them
\* variant: the same headers read in the opposite order
FinalUrlHeadersReversed == <<"X-Target-Url", "X-Final-Url", "X-ScraperAPI-Final-Url">>
FinalUrlHeaders == <<"X-ScraperAPI-Final-Url", "X-Final-Url", "X-Target-Url">>

\* the first of them with a value: <<>> or <<url>>
HeaderHint(r) ==
  LET S == {i \in 1..Len(FinalUrlHeaders) : r.headers[FinalUrlHeaders[i]] # <<>>}
  IN IF S = {} THEN <<>>
     ELSE r.headers[FinalUrlHeaders[CHOOSE i \in S : \A j \in S : i <= j]]

\* _host(request_url).endswith("news.google.com"), for request URLs without
\* userinfo
IsGoogleNews(url) == HostIn(_host(url), {<<"news", "google", "com">>})

\* BeautifulSoup(content): the tags of an HTML document; of anything else
\* a tree without canonical link, og:url and headline
Soup(content) ==
  IF content.kind = "html" THEN content
  ELSE [content EXCEPT !.canonical = <<>>, !.og = <<>>, !.h1 = "", !.figures = FALSE]

\* html is <<>> for None, else <<the parsed document>>
_final_url_from_response(r, request_url, html) ==
  LET hint == HeaderHint(r)
      can  == IF html = <<>> THEN <<>> ELSE _canonical_from_html(html[1])
  IN IF hint # <<>> THEN hint[1]
     ELSE IF IsGoogleNews(request_url) /\ can # <<>> THEN can[1]
     ELSE IF IsGoogleNews(request_url) /\ request_url.q # <<>> THEN request_url.q[1]
     ELSE IF can # <<>> THEN can[1]
     ELSE request_url

\* ------------------------------------------------------------------------
\* app/parsers/extract.py: fetch_and_summarize
\* ------------------------------------------------------------------------
\* how a call ends
Raised == [kind |-> "raise", headline |-> "", final_url |-> <<>>, numbers |-> FALSE]
ReturnedNone == [kind |-> "none", headline |-> "", final_url |-> <<>>, numbers |-> FALSE]
Running == [kind |-> "running", headline |-> "", final_url |-> <<>>, numbers |-> FALSE]

\* extract_text(BytesIO(r.content)): the text of a PDF file; pdfminer
\* raises on bytes that are not one
ExtractTextRaises(content) == content.kind # "pdf"

_summarize_pdf(url, content) ==
  [kind |-> "payload", headline |-> "Results presentation / PDF",
   final_url |-> <<url>>, numbers |-> content.figures]

\* the headline is the document's h1 or title, else a fixed text
_summarize_html(url, html) ==
  [kind |-> "payload",
   headline |-> IF html.h1 # "" THEN html.h1 ELSE "Earnings/Results",
   final_url |-> <<url>>, numbers |-> html.figures]

\* "application/pdf" in ctype or request_url.lower().endswith(".pdf")
PdfBranch(r, request_url) == r.ctype = "application/pdf" \/ request_url.path = "/x.pdf"

\* lines 316-321
PdfResult(r, request_url) ==
  LET final_url == _final_url_from_response(r, request_url, <<>>)
  IN IF ExtractTextRaises(r.content) THEN Raised
     ELSE IF is_blocked_domain(final_url) THEN ReturnedNone
     ELSE _summarize_pdf(final_url, r.content)

\* lines 324-340
HtmlResult(r, request_url) ==
  LET html == Soup(r.content)
      final_url == _final_url_from_response(r, request_url, <<html>>)
  IN IF is_blocked_domain(final_url) THEN ReturnedNone
     ELSE IF fcfg.FIRST_PARTY_ONLY /\ ~_is_wire_or_first_party(_host(final_url))
       THEN ReturnedNone
     ELSE _summarize_html(final_url, html)

\* the candidate URLs handed to fetch_and_summarize
UAcme    == Href(FALSE, <<"acme", "com">>, "/x", <<>>)
UIr      == Href(FALSE, <<"ir", "acme", "com">>, "/x", <<>>)
UWire    == Href(FALSE, <<"www", "wire", "com">>, "/x", <<>>)
UJunk    == Href(FALSE, <<"junk", "net">>, "/x", <<>>)
USubJunk == Href(FALSE, <<"www", "junk", "net">>, "/x", <<>>)
UUserJunk == Href(TRUE, <<"junk", "net">>, "/x", <<>>)
URelative == Href(FALSE, <<>>, "/x", <<>>)
UJunkPdf == Href(FALSE, <<"junk", "net">>, "/x.pdf", <<>>)
UNews    == Href(FALSE, <<"news", "google", "com">>, "/x", <<>>)
UNewsTo  == Href(FALSE, <<"news", "google", "com">>, "/x", <<UIr>>)

RequestUrls == {UAcme, UJunkPdf, UNews, UNewsTo}
TitleHints == {"", "Acme Q2"}

\* the bytes of a response: an HTML document with its tags, a PDF file with
\* or without figures in its text, or neither
Contents ==
  [kind : {"html"}, canonical : {<<>>, <<UWire>>, <<UUserJunk>>},
   og : {<<>>, <<USubJunk>>}, h1 : {"", "Acme Q2"}, figures : BOOLEAN]
  \cup [kind : {"pdf"}, canonical : {<<>>}, og : {<<>>}, h1 : {""}, figures : BOOLEAN]
  \cup [kind : {"other"}, canonical : {<<>>}, og : {<<>>}, h1 : {""}, figures : {FALSE}]

NoHeaders == [h \in Range(FinalUrlHeaders) |-> <<>>]
HeaderSets ==
  { NoHeaders,
    [NoHeaders EXCEPT !["X-Final-Url"] = <<UJunk>>],
    [NoHeaders EXCEPT !["X-Target-Url"] = <<URelative>>],
    [NoHeaders EXCEPT !["X-ScraperAPI-Final-Url"] = <<UAcme>>,
                      !["X-Target-Url"] = <<UIr>>] }

\* raise_for_status() passes on ok and raises on error
Responses ==
  [ok : {TRUE}, ctype : {"application/pdf", "text/html"},
   headers : HeaderSets, content : Contents]
  \cup {[ok |-> FALSE, ctype |-> "text/html", headers |-> NoHeaders,
         content |-> [kind |-> "other", canonical |-> <<>>, og |-> <<>>,
                      h1 |-> "", figures |-> FALSE]]}

\* fetch_and_summarize(request_url, title_hint) without SCRAPING_API_KEY
FetchCallNoKey ==
  /\ fpc = "idle"
  /\ ~fcfg.SCRAPING_API_KEY
  /\ \E u \in RequestUrls, t \in TitleHints :
       freq' = <<[request_url |-> u, title_hint |-> t]>>
  /\ fret' = Raised
  /\ fpc' = "done"
  /\ UNCHANGED <<fsVars, objVars, pc, loopVars, newVars, fcfg, resp, tried,
                 retryVars, extractVars>>

FetchCall ==
  /\ fpc = "idle"
  /\ fcfg.SCRAPING_API_KEY
  /\ \E u \in RequestUrls, t \in TitleHints :
       freq' = <<[request_url |-> u, title_hint |-> t]>>
  /\ fret' = Running
  /\ fpc' = "get"
  /\ UNCHANGED <<fsVars, objVars, pc, loopVars, newVars, fcfg, resp, tried,
                 retryVars, extractVars>>

\* SESSION.get(proxy, ...) raises: timeout, connection error, retries of
\* the adapter used up
FetchGetRaises ==
  /\ fpc = "get"
  /\ tried' = Append(tried, "proxy")
  /\ fret' = Raised
  /\ fpc' = "done"
  /\ UNCHANGED <<fsVars, objVars, pc, loopVars, newVars, fcfg, freq, resp,
                 retryVars, extractVars>>

\* r = SESSION.get(proxy, params=params, timeout=90)
FetchGet ==
  /\ fpc = "get"
  /\ tried' = Append(tried, "proxy")
  /\ \E r \in Responses : resp' = <<r>>
  /\ fpc' = "status"
  /\ UNCHANGED <<fsVars, objVars, pc, loopVars, newVars, fcfg, freq, fret,
                 retryVars, extractVars>>

\* r.raise_for_status() raises
FetchStatusRaises ==
  /\ fpc = "status"
  /\ ~resp[1].ok
  /\ fret' = Raised
  /\ fpc' = "done"
  /\ UNCHANGED <<fsVars, objVars, pc, loopVars, newVars, fcfg, freq, resp, tried,
                 retryVars, extractVars>>

FetchPdf ==
  /\ fpc = "status"
  /\ resp[1].ok
  /\ PdfBranch(resp[1], freq[1].request_url)
  /\ fret' = PdfResult(resp[1], freq[1].request_url)
  /\ fpc' = "done"
  /\ UNCHANGED <<fsVars, objVars, pc, loopVars, newVars, fcfg, freq, resp, tried,
                 retryVars, extractVars>>

FetchHtml ==
  /\ fpc = "status"
  /\ resp[1].ok
  /\ ~PdfBranch(resp[1], freq[1].request_url)
  /\ fret' = HtmlResult(resp[1], freq[1].request_url)
  /\ fpc' = "done"
  /\ UNCHANGED <<fsVars, objVars, pc, loopVars, newVars, fcfg, freq, resp, tried,
                 retryVars, extractVars>>

\* the caller has the outcome; the next call starts from nothing
FetchReturn ==
  /\ fpc = "done"
  /\ freq' = <<>>
  /\ resp' = <<>>
  /\ tried' = <<>>
  /\ fret' = Running
  /\ fpc' = "idle"
  /\ UNCHANGED <<fsVars, objVars, pc, loopVars, newVars, fcfg, retryVars, extractVars>>

\* SCRAPING_API_KEY, BLOCK_DOMAINS, GOOD_WIRE_DOMAINS and FIRST_PARTY_ONLY as
\* extract.py reads them with getattr(CFG, ...)
FetchConfigs ==
  [SCRAPING_API_KEY : BOOLEAN, FIRST_PARTY_ONLY : BOOLEAN,
   BLOCK_DOMAINS : {{}, {<<"junk", "net">>}},
   GOOD_WIRE_DOMAINS : {{}, {<<"wire", "com">>}}]

FetchIdle ==
  /\ freq = <<>>
  /\ resp = <<>>
  /\ tried = <<>>
  /\ fret = Running
  /\ fpc = "idle"

\* ------------------------------------------------------------------------
\* The retrying clients: SecClient.get (app/sec_client.py), _SecClient.get
\* (watchers/sec_edgar.py), _Http.get (watchers/rns_lse.py, ir_sources.py)
\* ------------------------------------------------------------------------
\* times are in twentieths of a second
\* backoff = 0.5
BackoffStart == 10
\* min(backoff * 2, 8.0)
BackoffCap == 160
\* max_retries=5
DefaultMaxRetries == 5
\* the largest max_retries a client is built with
MaxRetries == 6

\* the three clients; polite_delay: 0.2 for the SEC and IR clients, 0.25
\* for the LSE client (SecClient sleeps a fixed 0.2)
Clients ==
  [class : {"SecClient"}, max_retries : {0, 1, DefaultMaxRetries, MaxRetries},
   polite_delay : {4}]
    \cup [class : {"_SecClient", "_Http"},
          max_retries : {0, 1, DefaultMaxRetries, MaxRetries},
          polite_delay : {4, 5}]

\* Retry-After of a response: no header, or seconds as a number
RetryAfterValues == {<<>>, <<0>>, <<60>>}

\* if r.status_code in (403, 429)
RetryStatuses == {403, 429}
\* the other statuses raise_for_status raises on
ErrorStatuses == {404, 500, 503} \ RetryStatuses

GetCall ==
  /\ gpc = "idle"
  /\ \E c \in Clients : client' = <<c>>
  /\ attempts' = 0
  /\ backoff' = BackoffStart
  /\ slept' = <<>>
  /\ status' = 0
  /\ gpc' = "loop"
  /\ exc' = ""
  /\ UNCHANGED <<fsVars, objVars, pc, loopVars, newVars, fetchVars, extractVars>>

\* self.s.get raises: timeout, connection error
GetRequestRaises ==
  /\ gpc = "loop"
  /\ attempts < client[1].max_retries
  /\ attempts' = attempts + 1
  /\ gpc' = "raised"
  /\ exc' \in {"Timeout", "ConnectionError"}
  /\ UNCHANGED <<fsVars, objVars, pc, loopVars, newVars, fetchVars, extractVars,
                 client, backoff, slept, status>>

\* 403 or 429: sleep Retry-After or backoff, double backoff, continue
GetRetry ==
  /\ gpc = "loop"
  /\ attempts < client[1].max_retries
  /\ attempts' = attempts + 1
  /\ \E st \in RetryStatuses, ra \in RetryAfterValues :
       /\ status' = st
       /\ slept' = Append(slept, [why |-> "retry",
                                  t |-> IF ra # <<>> THEN ra[1] ELSE backoff])
  /\ backoff' = IF backoff * 2 < BackoffCap THEN backoff * 2 ELSE BackoffCap
  /\ UNCHANGED <<fsVars, objVars, pc, loopVars, newVars, fetchVars, extractVars,
                 client, gpc, exc>>

\* 403 or 429 with a Retry-After that is an HTTP date: float() raises
GetRetryAfterRaises ==
  /\ gpc = "loop"
  /\ attempts < client[1].max_retries
  /\ attempts' = attempts + 1
  /\ \E st \in RetryStatuses : status' = st
  /\ gpc' = "raised"
  /\ exc' = "ValueError"
  /\ UNCHANGED <<fsVars, objVars, pc, loopVars, newVars, fetchVars, extractVars,
                 client, backoff, slept>>

\* any other error status: r.raise_for_status() raises
GetStatusRaises ==
  /\ gpc = "loop"
  /\ attempts < client[1].max_retries
  /\ attempts' = attempts + 1
  /\ \E st \in ErrorStatuses : status' = st
  /\ gpc' = "raised"
  /\ exc' = "HTTPError"
  /\ UNCHANGED <<fsVars, objVars, pc, loopVars, newVars, fetchVars, extractVars,
                 client, backoff, slept>>

\* success: the polite delay, then return r
GetReturn ==
  /\ gpc = "loop"
  /\ attempts < client[1].max_retries
  /\ attempts' = attempts + 1
  /\ status' = 200
  /\ slept' = Append(slept, [why |-> "polite", t |-> client[1].polite_delay])
  /\ gpc' = "returned"
  /\ UNCHANGED <<fsVars, objVars, pc, loopVars, newVars, fetchVars, extractVars,
                 client, backoff, exc>>

\* the for loop ran out: raise_for_status() of the last 403/429 raises.
\* With no response at all, SecClient reads its unbound local r and the
\* other two raise RuntimeError.
GetExhausted ==
  /\ gpc = "loop"
  /\ attempts = client[1].max_retries
  /\ gpc' = "raised"
  /\ exc' = IF status # 0 THEN "HTTPError"
            ELSE IF client[1].class = "SecClient" THEN "UnboundLocalError"
            ELSE "RuntimeError"
  /\ UNCHANGED <<fsVars, objVars, pc, loopVars, newVars, fetchVars, extractVars,
                 client, attempts, backoff, slept, status>>

\* the caller has the response or the exception
GetDone ==
  /\ gpc \in {"raised", "returned"}
  /\ client' = <<>>
  /\ attempts' = 0
  /\ backoff' = 0
  /\ slept' = <<>>
  /\ status' = 0
  /\ gpc' = "idle"
  /\ exc' = ""
  /\ UNCHANGED <<fsVars, objVars, pc, loopVars, newVars, fetchVars, extractVars>>

\* ------------------------------------------------------------------------
\* Metric extraction (app/parsers/extract.py): _extract_numbers
\* ------------------------------------------------------------------------
\* flags=re.I on ASCII text
Fold(c) == Lower(c)

\* \d
IsDigit(c) == c \in {"0", "1", "2", "3", "4", "5", "6", "7", "8", "9"}

\* a literal of a pattern at position i: the position after it, 0 = no match
Lit(t, i, w) ==
  IF i >= 1 /\ i + Len(w) - 1 <= Len(t)
       /\ \A k \in 1..Len(w) : Fold(t[i + k - 1]) = w[k]
  THEN i + Len(w) ELSE 0

\* the first alternative of ws that matches at i
RECURSIVE Alt(_, _, _)
Alt(t, i, ws) ==
  IF ws = <<>> THEN 0
  ELSE IF Lit(t, i, Head(ws)) # 0 THEN Lit(t, i, Head(ws))
  ELSE Alt(t, i, Tail(ws))

\* (?:x)? : the position after x, or i when x does not match
Opt(i, e) == IF e # 0 THEN e ELSE i

\* words joined by \s+ at position i
RECURSIVE Words(_, _, _)
Words(t, i, ws) ==
  LET e == Lit(t, i, Head(ws)) IN
  IF e = 0 THEN 0
  ELSE IF Len(ws) = 1 THEN e
  ELSE IF ~IsSpace(At(t, e)) THEN 0
  ELSE Words(t, SkipWs(t, e), Tail(ws))

\* \d+ and [\d,]* , greedy
RECURSIVE SkipDigits(_, _)
SkipDigits(t, i) == IF IsDigit(At(t, i)) THEN SkipDigits(t, i + 1) ELSE i

RECURSIVE SkipDigitsCommas(_, _)
SkipDigitsCommas(t, i) ==
  IF IsDigit(At(t, i)) \/ At(t, i) = CM THEN SkipDigitsCommas(t, i + 1) ELSE i

\* (?:\.\d+)?
Decimals(t, i) ==
  IF At(t, i) = "." /\ IsDigit(At(t, i + 1)) THEN SkipDigits(t, i + 1) ELSE i

\* (?:\+|\-)?
Sign(t, i) == IF At(t, i) \in {"+", "-"} THEN i + 1 ELSE i

\* (?:million|billion|m|bn)
Units ==
  << <<"m", "i", "l", "l", "i", "o", "n">>,
     <<"b", "i", "l", "l", "i", "o", "n">>,
     <<"m">>,
     <<"b", "n">> >>

\* \d[\d,]*(?:\.\d+)?\s* : the position after it, 0 = no digit at i
Amount(t, i) ==
  IF IsDigit(At(t, i))
  THEN SkipWs(t, Decimals(t, SkipDigitsCommas(t, i + 1)))
  ELSE 0

\* a literal and an alternation under a pattern's flags: re.I or none
LitIn(t, i, w, fold) ==
  IF fold THEN Lit(t, i, w)
  ELSE IF i >= 1 /\ i + Len(w) - 1 <= Len(t) /\ SubSeq(t, i, i + Len(w) - 1) = w
  THEN i + Len(w) ELSE 0

RECURSIVE AltIn(_, _, _, _)
AltIn(t, i, ws, fold) ==
  IF ws = <<>> THEN 0
  ELSE IF LitIn(t, i, Head(ws), fold) # 0 THEN LitIn(t, i, Head(ws), fold)
  ELSE AltIn(t, i, Tail(ws), fold)

\* _MONEY at position i: the position after the match, 0 = no match
\* ([\$£€] on ASCII text is the dollar sign)
MoneyIn(t, i, fold) ==
  LET d == IF IsSpace(At(t, i + 1)) /\ IsDigit(At(t, i + 2)) THEN i + 2
           ELSE i + 1
  IN
  IF At(t, i) = "$" /\ Amount(t, d) # 0
  THEN Opt(Amount(t, d), AltIn(t, Amount(t, d), Units, fold))
  ELSE IF Amount(t, i) # 0 THEN AltIn(t, Amount(t, i), Units, fold)
  ELSE 0

\* _MONEY inside the patterns compiled with flags=re.I
_MONEY(t, i) == MoneyIn(t, i, TRUE)

\* _NUM at position i
_NUM(t, i) ==
  IF IsDigit(At(t, Sign(t, i)))
  THEN Decimals(t, SkipDigits(t, Sign(t, i)))
  ELSE 0

\* \s?% after the number of _PCT
PctSign(t, i) ==
  IF At(t, i) = "%" THEN i + 1
  ELSE IF IsSpace(At(t, i)) /\ At(t, i + 1) = "%" THEN i + 2
  ELSE 0

\* _PCT at position i
_PCT(t, i) == IF _NUM(t, i) # 0 THEN PctSign(t, _NUM(t, i)) ELSE 0

\* year[- ]over[- ]year at position i
YearOverYear(t, i) ==
  LET a == Lit(t, i, <<"y", "e", "a", "r">>)
      b == IF a # 0 /\ At(t, a) \in {"-", SP}
           THEN Lit(t, a + 1, <<"o", "v", "e", "r">>) ELSE 0
  IN IF b # 0 /\ At(t, b) \in {"-", SP}
     THEN Lit(t, b + 1, <<"y", "e", "a", "r">>) ELSE 0

\* vs\.?\s*prior at position i
VsPrior(t, i) ==
  LET a == Lit(t, i, <<"v", "s">>)
      b == IF At(t, a) = "." THEN a + 1 ELSE a
  IN IF a # 0 THEN Lit(t, SkipWs(t, b), <<"p", "r", "i", "o", "r">>) ELSE 0

\* \s*(?:yoy|year[- ]over[- ]year|vs\.?\s*prior) at position i
YoyPhrase(t, i) ==
  LET j == SkipWs(t, i) IN
  \/ Lit(t, j, <<"y", "o", "y">>) # 0
  \/ YearOverYear(t, j) # 0
  \/ VsPrior(t, j) # 0

\* the labels of the four KPIs: what "current" searches, what "yoy" searches.
\* An optional prefix, (?:adjusted\s*)? or (?:diluted\s+)?, moves the start
\* of a match and nothing else, so it is left out.
KPIs == <<"revenue", "ebitda", "net_income", "eps">>

\* net\s+(?:income|profit)
NetIncomeOrProfit(t, i) ==
  IF Words(t, i, << <<"n", "e", "t">>, <<"i", "n", "c", "o", "m", "e">> >>) # 0
  THEN Words(t, i, << <<"n", "e", "t">>, <<"i", "n", "c", "o", "m", "e">> >>)
  ELSE Words(t, i, << <<"n", "e", "t">>, <<"p", "r", "o", "f", "i", "t">> >>)

\* profit\s+after\s+tax
ProfitAfterTax(t, i) ==
  Words(t, i, << <<"p", "r", "o", "f", "i", "t">>, <<"a", "f", "t", "e", "r">>,
                 <<"t", "a", "x">> >>)

CurrentLabel(k, t, i) ==
  CASE k = "revenue" ->
         Alt(t, i, << <<"r", "e", "v", "e", "n", "u", "e">>,
                      <<"n", "e", "t", " ", "s", "a", "l", "e", "s">>,
                      <<"t", "u", "r", "n", "o", "v", "e", "r">> >>)
    [] k = "ebitda" -> Lit(t, i, <<"e", "b", "i", "t", "d", "a">>)
    [] k = "net_income" ->
         IF NetIncomeOrProfit(t, i) # 0 THEN NetIncomeOrProfit(t, i)
         ELSE IF ProfitAfterTax(t, i) # 0 THEN ProfitAfterTax(t, i)
         ELSE Lit(t, i, <<"l", "o", "s", "s">>)
    [] k = "eps" ->
         IF Lit(t, i, <<"e", "p", "s">>) # 0 THEN Lit(t, i, <<"e", "p", "s">>)
         ELSE Words(t, i, << <<"e", "a", "r", "n", "i", "n", "g", "s">>, <<"p", "e", "r">>,
                             <<"s", "h", "a", "r", "e">> >>)

YoyLabel(k, t, i) ==
  CASE k = "revenue" -> Lit(t, i, <<"r", "e", "v", "e", "n", "u", "e">>)
    [] k = "net_income" ->
         IF NetIncomeOrProfit(t, i) # 0 THEN NetIncomeOrProfit(t, i)
         ELSE Lit(t, i, <<"l", "o", "s", "s">>)
    [] OTHER -> CurrentLabel(k, t, i)

\* the value pattern of a KPI's "current": _NUM for eps, _MONEY otherwise
CurrentValue(k, t, j) == IF k = "eps" THEN _NUM(t, j) ELSE _MONEY(t, j)

\* the value pattern of "yoy": _PCT followed by the phrase
YoyValue(t, j) == IF _PCT(t, j) # 0 /\ YoyPhrase(t, _PCT(t, j)) THEN _PCT(t, j) ELSE 0

\* [^.\n]*? between the label, which ends before e, and the value at j
Gap(t, e, j) == e <= j /\ \A p \in e..(j - 1) : t[p] \notin {".", NL}

\* the least member of a non-empty set of positions
First(S) == CHOOSE x \in S : \A y \in S : x <= y

\* re.search(label [^.\n]*? (value)): <<start, end>> of group 1 of the
\* leftmost match, the gap as short as it can be; <<>> when there is none
SearchCurrent(k, t) ==
  LET at(i) == {j \in 1..Len(t) : /\ Gap(t, CurrentLabel(k, t, i), j)
                                  /\ CurrentValue(k, t, j) # 0}
      starts == {i \in 1..Len(t) : CurrentLabel(k, t, i) # 0 /\ at(i) # {}}
  IN IF starts = {} THEN <<>>
     ELSE <<First(at(First(starts))),
            CurrentValue(k, t, First(at(First(starts))))>>

SearchYoy(k, t) ==
  LET at(i) == {j \in 1..Len(t) : /\ Gap(t, YoyLabel(k, t, i), j)
                                  /\ YoyValue(t, j) # 0}
      starts == {i \in 1..Len(t) : YoyLabel(k, t, i) # 0 /\ at(i) # {}}
  IN IF starts = {} THEN <<>>
     ELSE <<First(at(First(starts))), YoyValue(t, First(at(First(starts))))>>

\* m.group(1)
Group(t, m) == SubSeq(t, m[1], m[2] - 1)

\* re.sub(r"[\s\n]+", " ", s), by halves: a run of whitespace that the two
\* halves share is one blank
RECURSIVE Collapse(_)
Collapse(s) ==
  IF s = <<>> THEN <<>>
  ELSE IF Len(s) = 1 THEN (IF IsSpace(s[1]) THEN <<SP>> ELSE s)
  ELSE LET h == Len(s) \div 2
           l == Collapse(SubSeq(s, 1, h))
           r == Collapse(SubSeq(s, h + 1, Len(s)))
       IN IF l[Len(l)] = SP /\ r[1] = SP THEN l \o Tail(r) ELSE l \o r

_norm(s) == Collapse(Strip(s))

NotFound == <<"N", "o", "t", " ", "f", "o", "u", "n", "d">>
NA == <<"n", "/", "a">>

\* text[:6000]
PrefixLen == 6000
Prefix(t) == SubSeq(t, 1, IF Len(t) < PrefixLen THEN Len(t) ELSE PrefixLen)

\* \w on lower-cased ASCII text
IsWord(c) ==
  \/ IsDigit(c)
  \/ c \in {"a", "b", "c", "d", "e", "f", "g", "h", "i", "j", "k", "l", "m", "n",
            "o", "p", "q", "r", "s", "t", "u", "v", "w", "x", "y", "z", "_"}

\* \b on text of either case
WordBoundary(t, i) == IsWord(Fold(At(t, i - 1))) # IsWord(Fold(At(t, i)))

\* re.search(_PCT, line) or re.search(_MONEY, line), no flags
has_metric(line) ==
  \E i \in 1..Len(line) : _PCT(line, i) # 0 \/ MoneyIn(line, i, FALSE) # 0

\* re.search(r"buyback|repurchase", line_norm, re.I)
Buyback(line) ==
  \E i \in 1..Len(line) :
     Alt(line, i, << <<"b", "u", "y", "b", "a", "c", "k">>,
                     <<"r", "e", "p", "u", "r", "c", "h", "a", "s", "e">> >>) # 0

\* \b(US|USA|UK|Europe|EU|Canada|Australia|LatAm|LATAM|North America|Asia|MEA)\b
GeoTokens ==
  << <<"u", "s">>,
     <<"u", "s", "a">>,
     <<"u", "k">>,
     <<"e", "u", "r", "o", "p", "e">>,
     <<"e", "u">>,
     <<"c", "a", "n", "a", "d", "a">>,
     <<"a", "u", "s", "t", "r", "a", "l", "i", "a">>,
     <<"l", "a", "t", "a", "m">>,
     <<"l", "a", "t", "a", "m">>,
     <<"n", "o", "r", "t", "h", SP, "a", "m", "e", "r", "i", "c", "a">>,
     <<"a", "s", "i", "a">>,
     <<"m", "e", "a">> >>

\* \b(OSB|Sportsbook|iCasino|Casino|Gaming|Lottery|Media|B2B|B2C)\b
ProductTokens ==
  << <<"o", "s", "b">>,
     <<"s", "p", "o", "r", "t", "s", "b", "o", "o", "k">>,
     <<"i", "c", "a", "s", "i", "n", "o">>,
     <<"c", "a", "s", "i", "n", "o">>,
     <<"g", "a", "m", "i", "n", "g">>,
     <<"l", "o", "t", "t", "e", "r", "y">>,
     <<"m", "e", "d", "i", "a">>,
     <<"b", "2", "b">>,
     <<"b", "2", "c">> >>

\* re.search(r"\b(w1|w2|...)\b", line_norm, re.I)
TokenSearch(line, ws) ==
  \E i \in 1..Len(line), n \in 1..Len(ws) :
     /\ WordBoundary(line, i)
     /\ Lit(line, i, ws[n]) # 0
     /\ WordBoundary(line, Lit(line, i, ws[n]))

\* len(line_norm) > 220: continue
BreakdownMaxLen == 220

\* the lines that pass the three "continue" tests of the loop
BreakdownLine(line) ==
  /\ Len(_norm(line)) <= BreakdownMaxLen
  /\ has_metric(line)
  /\ ~Buyback(_norm(line))

\* the lines out[key] receives, in the order of the loop
RECURSIVE Appended(_, _)
Appended(lines, ws) ==
  IF lines = <<>> THEN <<>>
  ELSE IF BreakdownLine(Head(lines)) /\ TokenSearch(_norm(Head(lines)), ws)
       THEN <<_norm(Head(lines))>> \o Appended(Tail(lines), ws)
  ELSE Appended(Tail(lines), ws)

\* the breakdown lists of the dict _extract_numbers returns
_breakdowns(t) ==
  [geo_breakdown     |-> Appended(SplitLines(Prefix(t)), GeoTokens),
   product_breakdown |-> Appended(SplitLines(Prefix(t)), ProductTokens)]

\* the KPI entries of the dict _extract_numbers returns (the three lists
\* of the dict are filled afterwards and read none of these entries)
_extract_numbers(t) ==
  [k \in {KPIs[n] : n \in 1..Len(KPIs)} |->
     LET m == SearchCurrent(k, Prefix(t))
         y == SearchYoy(k, Prefix(t))
     IN [current |-> IF m # <<>> THEN _norm(Group(Prefix(t), m)) ELSE NotFound,
         prior   |-> NotFound,
         yoy     |-> IF y # <<>> THEN _norm(Group(Prefix(t), y)) ELSE NA]]

\* the texts: up to MaxFrags pieces of a results statement, one after another
MaxFrags == 4
Frags ==
  { <<"R", "e", "v", "e", "n", "u", "e">>, <<"E", "P", "S">>, <<SP>>, <<NL>>,
    <<".">>, <<"$", "2">>, <<"m">>, <<"5", "%">>, <<"y", "o", "y">> }

RECURSIVE TextsOf(_)
TextsOf(n) ==
  IF n = 0 THEN {<<>>}
  ELSE TextsOf(n - 1) \cup {f \o t : f \in Frags, t \in TextsOf(n - 1)}

Texts == TextsOf(MaxFrags)

\* out = _extract_numbers(text)
ExtractNumbers ==
  /\ out = <<>>
  /\ out' = <<_extract_numbers(text)>>
  /\ lists' = <<_breakdowns(text)>>
  /\ UNCHANGED <<fsVars, objVars, pc, loopVars, newVars, fetchVars, retryVars, text>>

\* ------------------------------------------------------------------------
\* Bot-wall detection (app/net_fetchers.py, app/fetchers.py)
\* ------------------------------------------------------------------------
\* the alternatives of BOTWALL_SIGNS, in the order of the pattern
BOTWALL_SIGNS ==
  << <<"c", "a", "p", "t", "c", "h", "a">>,
     <<"v", "e", "r", "i", "f", "y", " ", "y", "o", "u", " ", "a", "r", "e", " ",
       "h", "u", "m", "a", "n">>,
     <<"a", "c", "c", "e", "s", "s", " ", "d", "e", "n", "i", "e", "d">>,
     <<"f", "o", "r", "b", "i", "d", "d", "e", "n">>,
     <<"c", "l", "o", "u", "d", "f", "l", "a", "r", "e">>,
     <<"a", "k", "a", "m", "a", "i">>,
     <<"p", "e", "r", "i", "m", "e", "t", "e", "r", "x">>,
     <<"d", "a", "t", "a", "d", "o", "m", "e">>,
     <<"i", "n", "c", "a", "p", "s", "u", "l", "a">>,
     <<"a", "t", "t", "e", "n", "t", "i", "o", "n", " ", "r", "e", "q", "u", "i", "r", "e", "d">> >>

\* BOTWALL_SIGNS.search(html), re.I: some alternative matches somewhere
BotwallSearch(html) == \E i \in 1..Len(html) : Alt(html, i, BOTWALL_SIGNS) # 0

\* len(html) < 800
BotwallShort == 800

\* variant: only a short page is taken for a challenge page
looks_like_botwall_short_only(html) ==
  IF html = <<>> THEN TRUE
  ELSE Len(html) < BotwallShort /\ BotwallSearch(html)

\* net_fetchers.looks_like_botwall
looks_like_botwall(html) ==
  IF html = <<>> THEN TRUE
  ELSE IF Len(html) < BotwallShort /\ BotwallSearch(html) THEN TRUE
  ELSE BotwallSearch(html)

\* fetchers.looks_like_botwall, the second copy (its BOTWALL_SIGNS is the
\* same pattern)
fetchers_looks_like_botwall(html) ==
  IF html = <<>> THEN TRUE
  ELSE IF Len(html) < BotwallShort /\ BotwallSearch(html) THEN TRUE
  ELSE BotwallSearch(html)

\* the bodies: up to MaxPieces pieces of a page, one after another; Padding
\* is a run of text as long as the threshold
MaxPieces == 3
Padding == [i \in 1..BotwallShort |-> "x"]
Pieces ==
  { <<"c", "a", "p", "t", "c", "h", "a">>,
    <<"A", "c", "c", "e", "s", "s", " ", "D", "e", "n", "i", "e", "d">>,
    <<"C", "l", "o", "u", "d">>, <<"f", "l", "a", "r", "e">>,
    <<"R", "e", "v", "e", "n", "u", "e">>,
    Padding }

RECURSIVE BodiesOf(_)
BodiesOf(n) ==
  IF n = 0 THEN {<<>>}
  ELSE BodiesOf(n - 1) \cup {f \o t : f \in Pieces, t \in BodiesOf(n - 1)}

Bodies == BodiesOf(MaxPieces)

\* both copies are applied to the body
LooksLikeBotwall ==
  /\ wall = <<>>
  /\ wall' = <<looks_like_botwall(body), fetchers_looks_like_botwall(body)>>
  /\ UNCHANGED <<fsVars, objVars, pc, loopVars, fetchVars, retryVars,
                 extractVars, periodVars, highlightVars, edgarVars, body>>

\* ------------------------------------------------------------------------
\* Period detection (app/utils/text.py): detect_period_key
\* ------------------------------------------------------------------------
\* \b between s[i - 1] and s[i]
Boundary(s, i) == IsWord(At(s, i - 1)) # IsWord(At(s, i))

\* 20\d{2} at position i: the position after it, 0 = no match
Year20(s, i) ==
  IF At(s, i) = "2" /\ At(s, i + 1) = "0" /\ IsDigit(At(s, i + 2))
       /\ IsDigit(At(s, i + 3))
  THEN i + 4 ELSE 0

\* \s+ at position i: the position after it, 0 = no whitespace at i
Spaces(s, i) == IF i # 0 /\ IsSpace(At(s, i)) THEN SkipWs(s, i) ELSE 0

\* None
None == <<>>

\* f"{year}-{label}"
PeriodKey(s, y, label) == SubSeq(s, y, y + 3) \o <<"-">> \o label

\* \bq([1-4])\s*(20\d{2})\b at position i: where the year starts, 0 = no match
QYearAt(s, i) ==
  LET y == SkipWs(s, i + 2) IN
  IF Boundary(s, i) /\ At(s, i) = "q" /\ At(s, i + 1) \in {"1", "2", "3", "4"}
       /\ Year20(s, y) # 0 /\ Boundary(s, Year20(s, y))
  THEN y ELSE 0

\* \b(20\d{2})\s*q([1-4])\b at position i: where the q starts, 0 = no match
YearQAt(s, i) ==
  LET q == SkipWs(s, Year20(s, i)) IN
  IF Boundary(s, i) /\ Year20(s, i) # 0 /\ At(s, q) = "q"
       /\ At(s, q + 1) \in {"1", "2", "3", "4"} /\ Boundary(s, q + 2)
  THEN q ELSE 0

\* q_map and the ordinals of the third pattern, in its order
Ordinals ==
  << <<"f", "i", "r", "s", "t">>, <<"s", "e", "c", "o", "n", "d">>,
     <<"t", "h", "i", "r", "d">>, <<"f", "o", "u", "r", "t", "h">> >>
q_map == << <<"Q", "1">>, <<"Q", "2">>, <<"Q", "3">>, <<"Q", "4">> >>

\* \b(first|second|third|fourth)\s+quarter\s+(20\d{2})\b at position i with
\* ordinal n: where the year starts, 0 = no match
OrdinalAt(s, i, n) ==
  LET q == Spaces(s, Lit(s, i, Ordinals[n]))
      y == Spaces(s, Lit(s, q, <<"q", "u", "a", "r", "t", "e", "r">>))
  IN IF Boundary(s, i) /\ q # 0 /\ y # 0 /\ Year20(s, y) # 0
          /\ Boundary(s, Year20(s, y))
     THEN y ELSE 0

\* .*?(20\d{2}) from position e: where the first year of the line starts
YearAfter(s, e) ==
  LET ys == {j \in e..Len(s) : /\ Year20(s, j) # 0
                               /\ \A p \in e..(j - 1) : s[p] # NL}
  IN IF e = 0 \/ ys = {} THEN 0 ELSE First(ys)

\* (?:\s+january\s*[-]\s*june)? after "interim report" (the other
\* characters of the class are not ASCII)
JanuaryJune(s, e) ==
  LET a == SkipWs(s, Lit(s, Spaces(s, e), <<"j", "a", "n", "u", "a", "r", "y">>))
      b == IF a # 0 /\ At(s, a) = "-" THEN SkipWs(s, a + 1) ELSE 0
  IN Lit(s, b, <<"j", "u", "n", "e">>)

\* \b(label)\b.*?(20\d{2}) at position i, the labels in the pattern's
\* order: where the year starts, 0 = no match
LabelYearAt(s, i, labels) ==
  LET e == Alt(s, i, labels)
      long == IF e # 0 /\ SubSeq(s, i, e - 1) = <<"i", "n", "t", "e", "r", "i", "m", " ", "r", "e", "p", "o", "r", "t">>
              THEN JanuaryJune(s, e) ELSE 0
  IN IF ~Boundary(s, i) \/ e = 0 THEN 0
     ELSE IF long # 0 /\ Boundary(s, long) /\ YearAfter(s, long) # 0
     THEN YearAfter(s, long)
     ELSE IF Boundary(s, e) THEN YearAfter(s, e)
     ELSE 0

H1Labels == << <<"h", "1">>, <<"f", "i", "r", "s", "t", " ", "h", "a", "l", "f">>,
              <<"i", "n", "t", "e", "r", "i", "m", " ", "r", "e", "p", "o", "r", "t">> >>
H2Labels == << <<"h", "2">>, <<"s", "e", "c", "o", "n", "d", " ", "h", "a", "l", "f">> >>
FYLabels == << <<"f", "y">>, <<"f", "u", "l", "l", " ", "y", "e", "a", "r">> >>

\* re.search of a label pattern: the year of the leftmost match, 0 = none
LabelYear(s, labels) ==
  LET starts == {i \in 1..Len(s) : LabelYearAt(s, i, labels) # 0}
  IN IF starts = {} THEN 0 ELSE LabelYearAt(s, First(starts), labels)

\* the six searches over s, in the order of the code
PeriodOf(s) ==
  LET qy == {i \in 1..Len(s) : QYearAt(s, i) # 0}
      yq == {i \in 1..Len(s) : YearQAt(s, i) # 0}
      oq == {i \in 1..Len(s) : \E n \in 1..4 : OrdinalAt(s, i, n) # 0}
  IN IF qy # {}
     THEN PeriodKey(s, QYearAt(s, First(qy)), <<"Q", s[First(qy) + 1]>>)
     ELSE IF yq # {}
     THEN PeriodKey(s, First(yq), <<"Q", s[YearQAt(s, First(yq)) + 1]>>)
     ELSE IF oq # {}
     THEN LET n == CHOOSE n \in 1..4 : OrdinalAt(s, First(oq), n) # 0
          IN PeriodKey(s, OrdinalAt(s, First(oq), n), q_map[n])
     ELSE IF LabelYear(s, H1Labels) # 0
     THEN PeriodKey(s, LabelYear(s, H1Labels), <<"H", "1">>)
     ELSE IF LabelYear(s, H2Labels) # 0
     THEN PeriodKey(s, LabelYear(s, H2Labels), <<"H", "2">>)
     ELSE IF LabelYear(s, FYLabels) # 0
     THEN PeriodKey(s, LabelYear(s, FYLabels), <<"F", "Y">>)
     ELSE None

\* variant: the full-year search comes first
detect_period_key_fy_first(ti, tx) ==
  LET s == LowerStr(ti \o <<NL>> \o tx) IN
  IF LabelYear(s, FYLabels) # 0
  THEN PeriodKey(s, LabelYear(s, FYLabels), <<"F", "Y">>)
  ELSE PeriodOf(s)

\* s = f"{title}\n{text}".lower()
detect_period_key(ti, tx) == PeriodOf(LowerStr(ti \o <<NL>> \o tx))

\* the titles: up to MaxTitleParts parts, one after another
MaxTitleParts == 3
TitleParts ==
  { <<"Q", "2", " ", "2", "0", "2", "5">>,
    <<"Q", "1", " ", "2", "0", "2", "4">>,
    <<"2", "0", "2", "5", "Q", "2">>,
    <<"F", "Y", "2", "0", "2", "5">>,
    <<"F", "u", "l", "l", " ", "Y", "e", "a", "r", " ", "2", "0", "2", "5">>,
    <<"H", "1", " ", "2", "0", "2", "5">>,
    <<"S", "e", "c", "o", "n", "d", " ", "Q", "u", "a", "r", "t", "e", "r", " ", "2", "0", "2", "4">>,
    <<SP>> }

RECURSIVE TitlesOf(_)
TitlesOf(n) ==
  IF n = 0 THEN {<<>>}
  ELSE TitlesOf(n - 1) \cup {f \o t : f \in TitleParts, t \in TitlesOf(n - 1)}

\* the press release of the example
ReleaseTitle ==
  <<"A", "c", "m", "e", " ", "G", "a", "m", "i", "n", "g", " ", "R", "e", "p", "o", "r", "t", "s", " ", "S", "e", "c", "o", "n", "d", " ", "Q", "u", "a", "r", "t", "e", "r", " ", "2", "0", "2", "5", " ", "R", "e", "s", "u", "l", "t", "s">>
ReleaseText ==
  <<"R", "e", "v", "e", "n", "u", "e", " ", "o", "f", " ", "$", "1", "2", "0", ".", "5", " ", "m", "i", "l", "l", "i", "o", "n", ",", " ", "u", "p", " ", "1", "2", "%", " ", "Y", "o", "Y", ".">>
    \o <<NL>> \o
  <<"A", "d", "j", "u", "s", "t", "e", "d", " ", "E", "B", "I", "T", "D", "A", " ", "o", "f", " ", "$", "3", "0", ".", "2", " ", "m", "i", "l", "l", "i", "o", "n", ".">>

PeriodTitles == TitlesOf(MaxTitleParts) \cup {ReleaseTitle}

\* the texts the titles come with
PeriodTexts ==
  { <<>>,
    <<"Q", "2", " ", "2", "0", "2", "5", " ", "r", "e", "v", "e", "n", "u", "e">>,
    <<"R", "e", "s", "u", "l", "t", "s", " ", "f", "o", "r", " ", "t", "h", "e", " ", "f", "u", "l", "l", " ", "y", "e", "a", "r", " ", "2", "0", "2", "5">>,
    <<"I", "n", "t", "e", "r", "i", "m", " ", "r", "e", "p", "o", "r", "t">> \o <<NL>> \o <<"J", "a", "n", "u", "a", "r", "y", " ", "-", " ", "J", "u", "n", "e", " ", "2", "0", "2", "5">>,
    ReleaseText }

\* period = detect_period_key(title_hint, text)
DetectPeriod ==
  /\ period = <<>>
  /\ period' = <<detect_period_key(title_hint, text)>>
  /\ UNCHANGED <<fsVars, objVars, pc, loopVars, fetchVars, retryVars,
                 extractVars, botVars, highlightVars, edgarVars,
                 title_hint>>

\* ------------------------------------------------------------------------
\* Highlights (app/parsers/extract.py): _extract_highlights
\* ------------------------------------------------------------------------
\* JUNK_DOMAINS: app/config.py has no attribute of that name, so the default
JUNK_DOMAINS ==
  { <<"tipranks", "com">>,
    <<"seekingalpha", "com">>,
    <<"fool", "com">>,
    <<"benzinga", "com">>,
    <<"marketwatch", "com">>,
    <<"investing", "com">>,
    <<"yahoo", "com">> }

_is_junk_domain(h) == HostIn(h, JUNK_DOMAINS)

SPAM_PHRASES ==
  << <<"T", "i", "p", "R", "a", "n", "k", "s">>,
     <<"P", "r", "e", "m", "i", "u", "m">>,
     <<"s", "u", "b", "s", "c", "r", "i", "b", "e">>,
     <<"s", "p", "o", "n", "s", "o", "r", "e", "d">>,
     <<"a", "d", "v", "e", "r", "t">>,
     <<"c", "o", "u", "p", "o", "n">>,
     <<"s", "i", "g", "n", SP, "u", "p">>,
     <<"c", "l", "i", "c", "k">>,
     <<"f", "o", "l", "l", "o", "w", SP, "u", "s">>,
     <<"r", "e", "a", "d", SP, "m", "o", "r", "e">> >>

\* any(p.lower() in t.lower() for p in SPAM_PHRASES)
Spam(t) ==
  \E n \in 1..Len(SPAM_PHRASES) :
     Contains(LowerStr(t), LowerStr(SPAM_PHRASES[n]))

\* \b(revenue|ebitda|profit|loss|eps|guidance)\b
HighlightKeywords ==
  << <<"r", "e", "v", "e", "n", "u", "e">>,
     <<"e", "b", "i", "t", "d", "a">>,
     <<"p", "r", "o", "f", "i", "t">>,
     <<"l", "o", "s", "s">>,
     <<"e", "p", "s">>,
     <<"g", "u", "i", "d", "a", "n", "c", "e">> >>

\* 25 <= len(t) <= 220
HighlightMinLen == 25
HighlightMaxLen == 220

\* the tests of the <li> loop and of the <p> loop on a normalised text
KeepBullet(t) ==
  /\ HighlightMinLen <= Len(t) /\ Len(t) <= HighlightMaxLen
  /\ ~Spam(t)
  /\ \/ has_metric(t)
     \/ TokenSearch(t, HighlightKeywords)

KeepParagraph(t) ==
  /\ HighlightMinLen <= Len(t) /\ Len(t) <= HighlightMaxLen
  /\ ~Spam(t)
  /\ has_metric(t)

\* article_root.select(tag), then _norm(el.get_text(" ", strip=True)) of each;
\* an element is [tag, text], its text one text node
RECURSIVE Selected(_, _)
Selected(els, tag) ==
  IF els = <<>> THEN <<>>
  ELSE IF Head(els).tag = tag
       THEN <<_norm(Strip(Head(els).text))>> \o Selected(Tail(els), tag)
  ELSE Selected(Tail(els), tag)

\* the list "highlights" before it is de-duplicated
Candidates(els, h) ==
  IF _is_wire_or_first_party(h) /\ ~_is_junk_domain(h)
  THEN SelectSeq(Selected(els, "li"), KeepBullet)
  ELSE SelectSeq(Selected(els, "p"), KeepParagraph)

\* if len(deduped) >= 8: break
HighlightCap == 8

\* the loop "De-dupe and cap"
RECURSIVE Deduped(_, _, _)
Deduped(hs, low, acc) ==
  IF hs = <<>> THEN acc
  ELSE IF LowerStr(Head(hs)) \in low THEN Deduped(Tail(hs), low, acc)
  ELSE IF Len(acc) + 1 >= HighlightCap THEN Append(acc, Head(hs))
  ELSE Deduped(Tail(hs), low \cup {LowerStr(Head(hs))}, Append(acc, Head(hs)))

_extract_highlights(els, h) == Deduped(Candidates(els, h), {}, <<>>)

\* MAX_HIGHLIGHTS of app/config.py, with MAX_HIGHLIGHTS unset in the environment
MAX_HIGHLIGHTS == 6

\* key_highlights = _extract_highlights(article_root, host)
ExtractHighlights ==
  /\ key_highlights = <<>>
  /\ key_highlights' = <<_extract_highlights(article_root, page_host)>>
  /\ UNCHANGED <<fsVars, objVars, pc, loopVars, fetchVars, retryVars,
                 extractVars, botVars, periodVars, edgarVars, article_root,
                 page_host>>

\* ------------------------------------------------------------------------
\* EDGAR watcher (app/watchers/edgar_watcher.py): run(config, seen_db, emit)
\* ------------------------------------------------------------------------
FORMS == {"10-Q", "10-K", "8-K", "6-K", "20-F", "40-F"}

\* int(config.get("START_FROM_DAYS", 90))
START_FROM_DAYS == 90

\* config["issuers"]: one issuer named by its ticker, one by its CIK
Issuers == << [cik |-> <<>>, ticker |-> "zz"], [cik |-> <<"1">>, ticker |-> ""] >>

\* by_ticker of a run: company_tickers.json lists the ticker or does not
TickerMaps == {<<>>, <<"1">>}

\* iss.get("cik") or by_ticker.get(iss.get("ticker", "").lower())
CikOf(iss, map) == IF iss.cik # <<>> THEN iss.cik ELSE map

\* f"sec:{cik}:{form}:{acc}"
FilingKey(cik, f) == <<"sec", cik, f.form, f.acc>>

\* d < cutoff, in half days from the midnight that begins today: d is the
\* midnight of fdate, cutoff is now less START_FROM_DAYS days
TooOld(f, now) == 0 - 2 * f.age < now - 2 * START_FROM_DAYS

\* the inputs: at most MaxEdgarRuns runs, each issuer with at most MaxFeed rows
MaxEdgarRuns == 2
MaxFeed == 2

\* the rows of "recent": age is the days since fdate
Filings ==
  { [form |-> "10-Q", acc |-> "a1", age |-> 1],
    [form |-> "8-K",  acc |-> "a2", age |-> START_FROM_DAYS],
    [form |-> "4",    acc |-> "a3", age |-> 1] }

Feeds == UNION {[1..n -> Filings] : n \in 0..MaxFeed}

EdgarKeys == {FilingKey("1", f) : f \in {g \in Filings : g.form \in FORMS}}

\* seen_db.seen(key) and seen_db.mark(key): the store run is handed is no
\* class of the repository; it is taken to be a set of keys that only grows
SeenDbSeen(key) == key \in seen_db
SeenDbMark(key) == seen_db \cup {key}

\* where the try block of a filing ends, and where its except block ends
TryEnds == {"primary_raises", "index_raises", "emit_raises", "mark_raises", "done"}
ExceptEnds == {"none", "index_raises", "emit_raises", "mark_raises", "done"}

\* the ways through the two blocks: the except block runs when the try block
\* raised; the try block fetches the index page only for an 8-K whose body
\* lacks Item 2.02
Paths(f, item) ==
  {p \in [try : TryEnds, except : ExceptEnds] :
     /\ (p.try = "done") = (p.except = "none")
     /\ p.try = "index_raises" => f.form = "8-K" /\ ~item}

\* the calls of emit on a path, and those that returned
EmitCalls(p) ==
  (IF p.try \in {"emit_raises", "mark_raises", "done"} THEN 1 ELSE 0)
    + (IF p.except \in {"emit_raises", "mark_raises", "done"} THEN 1 ELSE 0)

EmitReturns(p) ==
  (IF p.try \in {"mark_raises", "done"} THEN 1 ELSE 0)
    + (IF p.except \in {"mark_raises", "done"} THEN 1 ELSE 0)

\* seen_db.mark(key) returned
MarkedAfterFailure(p) ==
  p.try = "done" \/ p.except \in {"done", "index_raises"}

Marked(p) == p.try = "done" \/ p.except = "done"

MarkRaises(p) == p.try = "mark_raises" \/ p.except = "mark_raises"

\* what the turn of the loop came to: "failed" is the branch that prints
How(p) ==
  IF p.try = "primary_raises" /\ p.except = "index_raises" THEN "fetches_failed"
  ELSE IF Marked(p) THEN "marked"
  ELSE "failed"

\* the count of emissions of a key, as 0, 1 or "more than once"
AtMostTwo(n) == IF n > 2 THEN 2 ELSE n

\* run(): the cutoff, the ticker map; an exception of client.get leaves run
EdgarStart ==
  /\ epc = "idle"
  /\ edgar_runs < MaxEdgarRuns
  /\ edgar_runs' = edgar_runs + 1
  /\ \E ok \in BOOLEAN, now \in {0, 1}, map \in TickerMaps :
       IF ok
       THEN /\ epc' = "issuers"
            /\ issuers_left' = Issuers
            /\ clock' = now
            /\ by_ticker' = map
       ELSE UNCHANGED <<epc, issuers_left, clock, by_ticker>>
  /\ UNCHANGED <<fsVars, objVars, pc, loopVars, fetchVars, retryVars,
                 extractVars, botVars, periodVars, highlightVars, rows,
                 seen_db, emitted, emit_called, mark_raised, gave_up,
                 last_filing>>

\* for iss in issuers: the submissions of the issuer, or the end of run
EdgarIssuer ==
  /\ epc = "issuers"
  /\ IF issuers_left = <<>>
     THEN /\ epc' = "idle"
          /\ clock' = 0
          /\ by_ticker' = <<>>
          /\ UNCHANGED <<issuers_left, rows>>
     ELSE IF CikOf(Head(issuers_left), by_ticker) = <<>>
     THEN /\ issuers_left' = Tail(issuers_left)
          /\ UNCHANGED <<epc, clock, by_ticker, rows>>
     ELSE \E ok \in BOOLEAN, feed \in Feeds :
            IF ok
            THEN /\ rows' = [n \in 1..Len(feed) |->
                              [cik |-> CikOf(Head(issuers_left), by_ticker)[1],
                               filing |-> feed[n]]]
                 /\ issuers_left' = Tail(issuers_left)
                 /\ epc' = "filings"
                 /\ UNCHANGED <<clock, by_ticker>>
            ELSE /\ epc' = "idle"
                 /\ issuers_left' = <<>>
                 /\ clock' = 0
                 /\ by_ticker' = <<>>
                 /\ UNCHANGED rows
  /\ UNCHANGED <<fsVars, objVars, pc, loopVars, fetchVars, retryVars,
                 extractVars, botVars, periodVars, highlightVars, edgar_runs,
                 seen_db, emitted, emit_called, mark_raised, gave_up,
                 last_filing>>

\* one turn of the loop over the recent filings of the issuer
EdgarFiling ==
  /\ epc = "filings"
  /\ IF rows = <<>>
     THEN /\ epc' = "issuers"
          /\ UNCHANGED <<rows, seen_db, emitted, emit_called, mark_raised,
                         gave_up, last_filing>>
     ELSE LET f   == Head(rows).filing
              key == FilingKey(Head(rows).cik, f)
          IN /\ rows' = Tail(rows)
             /\ UNCHANGED epc
             /\ IF f.form \notin FORMS \/ TooOld(f, clock)
                THEN UNCHANGED <<seen_db, emitted, emit_called, mark_raised,
                                 gave_up, last_filing>>
                ELSE IF SeenDbSeen(key)
                THEN /\ last_filing' = <<[key |-> key, how |-> "seen"]>>
                     /\ UNCHANGED <<seen_db, emitted, emit_called, mark_raised,
                                    gave_up>>
                ELSE \E item \in BOOLEAN : \E p \in Paths(f, item) :
                       /\ emit_called' =
                            IF EmitCalls(p) > 0 THEN emit_called \cup {key}
                            ELSE emit_called
                       /\ emitted' =
                            [emitted EXCEPT ![key] = AtMostTwo(@ + EmitReturns(p))]
                       /\ seen_db' = IF Marked(p) THEN SeenDbMark(key) ELSE seen_db
                       /\ mark_raised' = (mark_raised \/ MarkRaises(p))
                       /\ gave_up' =
                            IF How(p) = "fetches_failed" THEN gave_up \cup {key}
                            ELSE gave_up
                       /\ last_filing' = <<[key |-> key, how |-> How(p)]>>
  /\ UNCHANGED <<fsVars, objVars, pc, loopVars, fetchVars, retryVars,
                 extractVars, botVars, periodVars, highlightVars, edgar_runs,
                 issuers_left, clock, by_ticker>>

\* ------------------------------------------------------------------------
\* The parts of the program a specification leaves at rest
\* ------------------------------------------------------------------------
RetryIdle ==
  /\ client = <<>>
  /\ attempts = 0
  /\ backoff = 0
  /\ slept = <<>>
  /\ status = 0
  /\ gpc = "idle"
  /\ exc = ""

BotIdle ==
  /\ body = <<>>
  /\ wall = <<>>

PeriodIdle ==
  /\ title_hint = <<>>
  /\ period = <<>>

HighlightIdle ==
  /\ article_root = <<>>
  /\ page_host = <<>>
  /\ key_highlights = <<>>

EdgarIdle ==
  /\ epc = "idle"
  /\ edgar_runs = 0
  /\ issuers_left = <<>>
  /\ clock = 0
  /\ by_ticker = <<>>
  /\ rows = <<>>
  /\ seen_db = {}
  /\ emitted = [k \in EdgarKeys |-> 0]
  /\ emit_called = {}
  /\ gave_up = {}
  /\ mark_raised = FALSE
  /\ last_filing = <<>>

NewIdle == BotIdle /\ PeriodIdle /\ HighlightIdle /\ EdgarIdle

ExtractIdle ==
  /\ text = <<>>
  /\ out = <<>>
  /\ lists = <<>>

\* ------------------------------------------------------------------------
\* Specification of the discovery process: import, loop, crash, restart
\* ------------------------------------------------------------------------
\* DRY_RUN, REQUIRE_NUMBERS, STRICT_EARNINGS_KEYWORDS, GOOD_WIRE_DOMAINS of
\* app/config.py; state_api tells whether the store object offers
\* make_id/is_seen/mark_seen (the State class under app/utils does not)
Configs ==
  [dry_run : BOOLEAN, require_numbers : BOOLEAN, strict : BOOLEAN,
   good_wire_domains : {{}, {<<"acme", "com">>}}, state_api : BOOLEAN]

\* data/seen.db before the first start: missing, written by an earlier
\* save(), or a legacy binary database
LoopFiles ==
  {NoFile, FileOf(SaveData({<<"a">>})), FileOf(<<BAD, "a">>)}

Rest ==
  /\ bak = NoFile
  /\ tmp = NoFile
  /\ pc = "down"
  /\ seen = {}
  /\ data = <<>>
  /\ ans = <<>>
  /\ batch = <<>>
  /\ cur = <<>>
  /\ result = "none"
  /\ outcome = "none"
  /\ calls = [i \in LoopIds |-> 0]

\* extract.py's settings when nothing calls it
DefaultFetchConfig ==
  [SCRAPING_API_KEY |-> FALSE, FIRST_PARTY_ONLY |-> TRUE,
   BLOCK_DOMAINS |-> {}, GOOD_WIRE_DOMAINS |-> {}]

PureIdle ==
  /\ fcfg = DefaultFetchConfig
  /\ FetchIdle
  /\ RetryIdle
  /\ ExtractIdle
  /\ NewIdle

Init ==
  /\ file \in LoopFiles
  /\ config \in Configs
  /\ Rest
  /\ PureIdle

Next ==
  \/ Boot
  \/ Poll
  \/ PollRaises
  \/ LoopEnd
  \/ Filtered
  \/ MakeIdRaises
  \/ AlreadySeen
  \/ Accept
  \/ FetchRaises
  \/ FetchNone
  \/ SkipNoNumbers
  \/ FetchOk
  \/ Send
  \/ Mark
  \/ Sleep
  \/ Crash

Spec == Init /\ [][Next]_vars

\* ------------------------------------------------------------------------
\* Specification of the State class under any client
\* ------------------------------------------------------------------------
DefaultConfig ==
  [dry_run |-> FALSE, require_numbers |-> TRUE, strict |-> TRUE,
   good_wire_domains |-> {}, state_api |-> FALSE]

StateFiles ==
  {NoFile, FileOf(<<>>), FileOf(<<"x", NL>>), FileOf(<<BAD, "a">>),
   FileOf(<<LB, DQ, "a">>)}

StateInit ==
  /\ file \in StateFiles
  /\ config = DefaultConfig
  /\ Rest
  /\ PureIdle

StateNext ==
  \/ Construct
  \/ ClientHas
  \/ ClientAdd
  \/ SaveBegin
  \/ SaveFlush
  \/ SaveClose
  \/ SaveReplace
  \/ Crash

StateSpec == StateInit /\ [][StateNext]_vars

\* ------------------------------------------------------------------------
\* Specification of loading: State over every file of a family, then saves
\* ------------------------------------------------------------------------
\* the bytes of free-form files
RawChars == {LB, RB, LC, RC, DQ, "a", SP, NL, BAD}

\* the longest free-form file
MaxRaw == 3

RawTexts == UNION {[1..n -> RawChars] : n \in 0..MaxRaw}

\* the entries written into list files, in the three formats
ListKeys ==
  { <<>>, <<"a">>, <<"x", "a">>, <<"a", SP, "x">>, <<DQ>>, <<SP>>,
    <<LB, "a">>, <<RC>>, <<SP, "a">>, <<"a", SP>>, <<"a", NL, "x">> }

\* the most entries of a list file
MaxList == 2

KeyLists == UNION {[1..n -> ListKeys] : n \in 0..MaxList}

\* one entry per line, the legacy format
LinesText(list) == Join(<<NL>>, list)

\* {"seen": [...]}
ObjectText(list) ==
  <<LC>> \o EncodeStr(SeenKey) \o <<CL, SP>> \o Dumps(list) \o <<RC>>

ListTexts ==
  UNION {{LinesText(l), LinesText(l) \o <<NL>>, Dumps(l), Dumps(l) \o <<NL>>,
          ObjectText(l)} : l \in KeyLists}

\* JSON of another shape, and a repeated "seen" key
OddTexts ==
  { <<LC>> \o EncodeStr(<<"a">>) \o <<CL, SP>> \o Dumps(<<>>) \o <<RC>>,
    <<LC>> \o EncodeStr(SeenKey) \o <<CL, SP>> \o EncodeStr(<<"a">>) \o <<RC>>,
    <<LC>> \o EncodeStr(SeenKey) \o <<CL>> \o Dumps(<<<<"a">>>>) \o <<CM>>
           \o EncodeStr(SeenKey) \o <<CL>> \o EncodeStr(<<"x">>) \o <<RC>>,
    <<LB, LB>> \o EncodeStr(<<"a">>) \o <<RB, CM>> \o EncodeStr(<<"x">>) \o <<RB>> }

LoadFileSet == {NoFile} \cup {FileOf(t) : t \in RawTexts \cup ListTexts \cup OddTexts}

LoadInit ==
  /\ file \in LoadFileSet
  /\ config = DefaultConfig
  /\ Rest
  /\ PureIdle

LoadNext ==
  \/ Construct
  \/ SaveBegin
  \/ SaveClose
  \/ SaveReplace
  \/ Crash

LoadSpec == LoadInit /\ [][LoadNext]_vars

\* ------------------------------------------------------------------------
\* Specification of fetch_and_summarize: every call on every response
\* ------------------------------------------------------------------------
FetchInit ==
  /\ file = NoFile
  /\ config = DefaultConfig
  /\ Rest
  /\ fcfg \in FetchConfigs
  /\ FetchIdle
  /\ RetryIdle
  /\ ExtractIdle
  /\ NewIdle

FetchNext ==
  \/ FetchCallNoKey
  \/ FetchCall
  \/ FetchGetRaises
  \/ FetchGet
  \/ FetchStatusRaises
  \/ FetchPdf
  \/ FetchHtml
  \/ FetchReturn

FetchSpec == FetchInit /\ [][FetchNext]_vars

\* ------------------------------------------------------------------------
\* Specification of the retrying clients: every get() against every server
\* ------------------------------------------------------------------------
RetryInit ==
  /\ file = NoFile
  /\ config = DefaultConfig
  /\ Rest
  /\ fcfg = DefaultFetchConfig
  /\ FetchIdle
  /\ RetryIdle
  /\ ExtractIdle
  /\ NewIdle

RetryNext ==
  \/ GetCall
  \/ GetRequestRaises
  \/ GetRetry
  \/ GetRetryAfterRaises
  \/ GetStatusRaises
  \/ GetReturn
  \/ GetExhausted
  \/ GetDone

RetrySpec == RetryInit /\ [][RetryNext]_vars

\* ------------------------------------------------------------------------
\* Specification of _extract_numbers over the texts
\* ------------------------------------------------------------------------
ExtractInit ==
  /\ file = NoFile
  /\ config = DefaultConfig
  /\ Rest
  /\ fcfg = DefaultFetchConfig
  /\ FetchIdle
  /\ RetryIdle
  /\ NewIdle
  /\ text \in Texts
  /\ out = <<>>
  /\ lists = <<>>

ExtractNext == ExtractNumbers

ExtractSpec == ExtractInit /\ [][ExtractNext]_vars

\* ------------------------------------------------------------------------
\* Specification of _extract_numbers over texts of breakdown lines
\* ------------------------------------------------------------------------
\* the texts of the breakdown loop: up to MaxLines lines, one per row
MaxLines == 3
LongLine == <<"E", "U", SP, "$", "2", "m", SP>> \o SubSeq(Padding, 1, BreakdownMaxLen)
BreakdownLines ==
  { <<"U", "S", SP, "$", "2", "m">>,
    <<"C", "a", "s", "i", "n", "o", SP, "5", "%">>,
    <<"U", "K", SP, "c", "a", "s", "i", "n", "o", SP, SP, "u", "p", SP, "5", SP, "%">>,
    <<"U", "S", SP, "b", "u", "y", "b", "a", "c", "k", SP, "$", "2", "m">>,
    <<"U", "S", SP, "s", "a", "l", "e", "s", SP, "2", "M">>,
    <<"S", "t", "a", "t", "u", "s", SP, "5", "%">> }

LinesOf(n) == UNION {[1..k -> BreakdownLines] : k \in 0..n}

\* the long line, when there is one, is the first
BreakdownTexts ==
  {LinesText(l) : l \in LinesOf(MaxLines)}
    \cup {LinesText(<<LongLine>> \o l) : l \in LinesOf(MaxLines - 1)}

BreakdownInit ==
  /\ file = NoFile
  /\ config = DefaultConfig
  /\ Rest
  /\ fcfg = DefaultFetchConfig
  /\ FetchIdle
  /\ RetryIdle
  /\ NewIdle
  /\ text \in BreakdownTexts
  /\ out = <<>>
  /\ lists = <<>>

BreakdownNext == ExtractNumbers

BreakdownSpec == BreakdownInit /\ [][BreakdownNext]_vars

\* ------------------------------------------------------------------------
\* Specification of _extract_highlights over article roots and hosts
\* ------------------------------------------------------------------------
\* the article roots: odd elements, a run of distinct bullets, the odd
\* elements once more
MaxOdd == 2
Marks == <<"1", "2", "3", "4", "5", "6", "7", "8", "9", "0">>
Bullet(k) ==
  <<"R", "e", "v", "e", "n", "u", "e", SP, "r", "o", "s", "e", SP>> \o <<Marks[k]>>
    \o <<"%", SP, "t", "o", SP, "$", "2", "m", SP, "i", "n", SP, "Q", "2">>

OddElements ==
  { [tag |-> "li", text |-> <<"R", "E", "V", "E", "N", "U", "E", SP, "R", "O", "S", "E", SP, "2", "%", SP, "T", "O", SP, "$", "2", "M", SP, "I", "N", SP, "Q", "2">>],
    [tag |-> "li", text |-> <<"C", "l", "i", "c", "k", SP, "t", "o", SP, "s", "u", "b", "s", "c", "r", "i", "b", "e", ":", SP, "r", "e", "v", "e", "n", "u", "e", SP, "u", "p", SP, "5", "%">>],
    [tag |-> "li", text |-> <<SP, "E", "B", "I", "T", "D", "A", SP, "g", "u", "i", "d", "a", "n", "c", "e", SP, SP, "w", "a", "s", SP, "r", "a", "i", "s", "e", "d", SP, "a", "g", "a", "i", "n", SP>>],
    [tag |-> "li", text |-> <<"U", "p", SP, "5", "%">>],
    [tag |-> "li", text |-> LongLine] }

OddsOf(n) == UNION {[1..k -> OddElements] : k \in 0..n}

Run(k, tag) == [n \in 1..k |-> [tag |-> tag, text |-> Bullet(n)]]

Roots ==
  {o \o Run(k, tag) \o o :
     o \in OddsOf(MaxOdd), k \in 0..(HighlightCap + 1), tag \in {"li", "p"}}

PageHosts ==
  { <<"ir", "acme", "com">>, <<"wire", "com">>, <<"media", "yahoo", "com">> }

WireConfig ==
  [DefaultFetchConfig EXCEPT !.GOOD_WIRE_DOMAINS = {<<"wire", "com">>}]

HighlightInit ==
  /\ file = NoFile
  /\ config = DefaultConfig
  /\ Rest
  /\ fcfg \in {DefaultFetchConfig, WireConfig}
  /\ FetchIdle
  /\ RetryIdle
  /\ ExtractIdle
  /\ BotIdle
  /\ PeriodIdle
  /\ EdgarIdle
  /\ article_root \in Roots
  /\ page_host \in PageHosts
  /\ key_highlights = <<>>

HighlightNext == ExtractHighlights

HighlightSpec == HighlightInit /\ [][HighlightNext]_vars

\* ------------------------------------------------------------------------
\* Specification of the EDGAR watcher: runs that share one seen_db
\* ------------------------------------------------------------------------
EdgarInit ==
  /\ file = NoFile
  /\ config = DefaultConfig
  /\ Rest
  /\ fcfg = DefaultFetchConfig
  /\ FetchIdle
  /\ RetryIdle
  /\ ExtractIdle
  /\ BotIdle
  /\ PeriodIdle
  /\ HighlightIdle
  /\ EdgarIdle

EdgarNext ==
  \/ EdgarStart
  \/ EdgarIssuer
  \/ EdgarFiling

EdgarSpec == EdgarInit /\ [][EdgarNext]_vars

\* ------------------------------------------------------------------------
\* Specification of looks_like_botwall over the bodies
\* ------------------------------------------------------------------------
BotInit ==
  /\ file = NoFile
  /\ config = DefaultConfig
  /\ Rest
  /\ fcfg = DefaultFetchConfig
  /\ FetchIdle
  /\ RetryIdle
  /\ ExtractIdle
  /\ PeriodIdle
  /\ HighlightIdle
  /\ EdgarIdle
  /\ body \in Bodies
  /\ wall = <<>>

BotNext == LooksLikeBotwall

BotSpec == BotInit /\ [][BotNext]_vars

\* ------------------------------------------------------------------------
\* Specification of detect_period_key over titles and texts
\* ------------------------------------------------------------------------
PeriodInit ==
  /\ file = NoFile
  /\ config = DefaultConfig
  /\ Rest
  /\ fcfg = DefaultFetchConfig
  /\ FetchIdle
  /\ RetryIdle
  /\ BotIdle
  /\ HighlightIdle
  /\ EdgarIdle
  /\ title_hint \in PeriodTitles
  /\ text \in PeriodTexts
  /\ out = <<>>
  /\ lists = <<>>
  /\ period = <<>>

PeriodNext == DetectPeriod

PeriodSpec == PeriodInit /\ [][PeriodNext]_vars

\* ------------------------------------------------------------------------
\* Specification of the analyses of one document: its numbers, its period
\* ------------------------------------------------------------------------
ReleaseInit ==
  /\ file = NoFile
  /\ config = DefaultConfig
  /\ Rest
  /\ fcfg = DefaultFetchConfig
  /\ FetchIdle
  /\ RetryIdle
  /\ BotIdle
  /\ HighlightIdle
  /\ EdgarIdle
  /\ title_hint \in TitleParts \cup {ReleaseTitle}
  /\ text \in PeriodTexts
  /\ out = <<>>
  /\ lists = <<>>
  /\ period = <<>>

ReleaseNext ==
  \/ ExtractNumbers
  \/ DetectPeriod

ReleaseSpec == ReleaseInit /\ [][ReleaseNext]_vars

\* ========================================================================
\* Properties
\* ========================================================================

\* C1 (as claimed): across polling passes, crashes and restarts, send_email
\* is called at most once for any id.
C1_AtMostOnce == \A i \in LoopIds : calls[i] <= 1

\* C2: whatever set of ids was added and saved, a fresh State on the same
\* path answers has(id) = true for each of them: when a State has just been
\* constructed over a file that is what save() writes for a set S, every
\* key of S is in the store.
C2_RoundTrip ==
  pc = "fresh" =>
    \A S \in SUBSET ClientKeys :
      (file.exists /\ file.bytes = SaveData(S)) => \A k \in S : HasKey(k)

C2_Witness ==
  /\ pc = "fresh"
  /\ file.exists
  /\ seen = {<<DQ>>, <<"a", NL, "x">>}
  /\ file.bytes = SaveData(seen)

\* C3: from the start of save() to its end, every step, a crash included,
\* leaves the target file as it was or holding the complete new text.
C3_AtomicSave ==
  [][(pc = "save_write" \/ pc = "save_replace") =>
       (file' = file \/ file' = FileOf(data))]_vars

C3_Witness ==
  /\ pc = "save_write"
  /\ tmp.exists
  /\ tmp.bytes # <<>>
  /\ tmp.bytes # data
  /\ file.exists
  /\ file.bytes # data
  /\ LoadBranch(file.bytes) = "array"

\* C4: while the process runs, an id enters the store only in the step
\* after send_email was called for the current item, whose fetch returned
\* a payload; no other step of the loop records an id.
C4_RecordedOnlyAfterSend ==
  [][\A i \in LoopIds :
       (pc # "down" /\ i \in seen' /\ i \notin seen) =>
         /\ pc = "mark"
         /\ cur # <<>>
         /\ make_id(cur[1]) = i
         /\ result \in {"numbers", "no_numbers"}
         /\ outcome # "none"]_vars

C4_Witness ==
  /\ pc = "item"
  /\ <<"e">> \in seen
  /\ calls[<<"e">>] >= 1

\* C5 (as claimed): the state file is rewritten after each completed batch,
\* so when the next batch begins every recorded id is on disk.
C5_SavedBeforeNextBatch == pc = "poll" => seen \subseteq Persisted(file)

\* the list a file holds is a JSON array without a repeated element
NoDupFile(f) ==
  LET v == Loads(Strip(f.bytes)) IN
  /\ f.exists
  /\ v.ok
  /\ v.val.t = "arr"
  /\ \A i, j \in 1..Len(v.val.items) : i # j => v.val.items[i] # v.val.items[j]

\* C6: while a State lives no id leaves its in-memory set, and every file
\* save() puts at the path is a duplicate-free list that holds every id the
\* file it replaces held.
C6_NeverRemoved ==
  [][/\ (pc # "down" /\ pc' # "down") => seen \subseteq seen'
     /\ (pc = "save_replace" /\ pc' = "ready") =>
          (NoDupFile(file') /\ Persisted(file) \subseteq Persisted(file'))]_vars

C6_Witness ==
  /\ pc = "ready"
  /\ seen = {<<"x">>, <<DQ>>}
  /\ file.exists
  /\ file.bytes = SaveData(seen)

\* the legacy files that list the entries of l, one per line
LegacyTexts(l) == {LinesText(l), LinesText(l) \o <<NL>>}

\* an id that fits on one line
LineKey(k) == k # <<>> /\ \A i \in 1..Len(k) : k[i] # NL

PlainKey(k) == LineKey(k) /\ ~IsSpace(k[1]) /\ ~IsSpace(k[Len(k)])

Unusable(f) ==
  f.exists /\ LoadBranch(f.bytes) \in {"undecodable", "jsonerror", "unexpected"}

\* C9 (as claimed): a file load could not use is moved aside, so no later
\* save() replaces it.
C9_BadFileNeverReplaced ==
  [][(pc = "save_replace" /\ pc' = "ready") => ~Unusable(file)]_vars

\* the non-blank lines of a text
NonBlankLines(raw) == {x \in Range(SplitLines(raw)) : Strip(x) # <<>>}

\* the set the recognition order of C10 gives, each element as str() has it
Recognised(bytes, leads) ==
  LET raw == Strip(bytes)
      d == Loads(raw)
  IN IF raw = <<>> THEN {}
     ELSE IF d.ok /\ d.val.t = "arr" THEN StrSet(d.val)
     ELSE IF d.ok /\ d.val.t = "obj"
             /\ \E i \in 1..Len(d.val.keys) :
                  d.val.keys[i] = <<"s", "e", "e", "n">> /\ d.val.items[i].t = "arr"
       THEN LET i == CHOOSE i \in 1..Len(d.val.keys) :
                       d.val.keys[i] = <<"s", "e", "e", "n">>
            IN StrSet(d.val.items[i])
     ELSE IF raw[1] \in leads THEN {}
     ELSE NonBlankLines(raw)

\* C10 (as claimed): empty text gives the empty set, a JSON array its
\* elements, a JSON object with a seen array that array's elements, and any
\* other text its non-blank lines.
C10_RecognitionAnyOtherText ==
  (pc = "fresh" /\ file.exists) => seen = Recognised(file.bytes, {})

\* C10 (amended): the same, but text that begins with "[", "{" or "}" and is
\* neither a JSON array nor an object with a seen array gives the empty set;
\* only text with another first character is read line by line.
C10_Recognition ==
  (pc = "fresh" /\ file.exists) => seen = Recognised(file.bytes, {LB, LC, RC})

C10_Witness ==
  /\ pc = "fresh"
  /\ file.exists
  /\ file.bytes = ObjectText(<< <<"a">>, <<DQ>> >>)
  /\ seen = {<<"a">>, <<DQ>>}

\* C11: when fetch_and_summarize raises for a candidate, that step sends no
\* mail, records nothing, keeps the process in the loop and leaves the rest
\* of the batch to be processed.
C11_FetchFailureSkips ==
  [][(pc = "fetch" /\ result' = "raised") =>
       /\ pc' = "item"
       /\ batch' = batch
       /\ calls' = calls
       /\ seen' = seen]_vars

C11_Witness ==
  /\ pc = "item"
  /\ result = "raised"
  /\ batch # <<>>
  /\ \A i \in LoopIds : calls[i] = 0

\* the final URL the running call computes for its response
FinalUrlOfCall ==
  LET r == resp[1]
      u == freq[1].request_url
  IN _final_url_from_response(r, u, IF PdfBranch(r, u) THEN <<>> ELSE <<Soup(r.content)>>)

\* a call that got a response raise_for_status accepts, and has ended
Answered == fpc = "done" /\ resp # <<>> /\ resp[1].ok

\* C12 (as claimed): the rendering proxy is contacted only after a direct
\* request and then the reader service were tried for the same candidate.
C12_ProxyAfterDirectAndReader ==
  \A i \in 1..Len(tried) :
    tried[i] = "proxy" =>
      \E j \in 1..(i - 1), k \in 1..(i - 1) :
        j < k /\ tried[j] = "direct" /\ tried[k] = "reader"

\* C14 (as claimed): when the host of the final URL is a BLOCK_DOMAINS entry
\* or a subdomain of one, the call ends without a payload, on the HTML and
\* on the PDF branch.
C14_BlockedHostNoPayload ==
  (Answered /\ HostIn(FinalUrlOfCall.host, fcfg.BLOCK_DOMAINS)) =>
    fret.kind # "payload"

\* the first entry of a list of optional values that is present
FirstOf(cands) ==
  LET S == {i \in 1..Len(cands) : cands[i] # <<>>}
  IN cands[CHOOSE i \in S : \A j \in S : i <= j]

\* C16 (as claimed): the final URL of a payload is the first present of the
\* canonical link, og:url, the proxy's header, the request URL.
C16_CanonicalBeforeHeader ==
  fret.kind = "payload" =>
    LET r == resp[1]
        u == freq[1].request_url
        html == Soup(r.content)
        pdf == PdfBranch(r, u)
    IN fret.final_url =
         FirstOf(<< IF pdf THEN <<>> ELSE html.canonical,
                    IF pdf THEN <<>> ELSE html.og,
                    HeaderHint(r),
                    <<u>> >>)

\* C16 (amended): the final URL of a payload is the first present of the
\* headers X-ScraperAPI-Final-Url, X-Final-Url, X-Target-Url, then (HTML
\* only) the canonical link, then og:url, then (request URLs on
\* news.google.com only) the query parameter url, then the request URL.
C16_FinalUrlOrder ==
  fret.kind = "payload" =>
    LET r == resp[1]
        u == freq[1].request_url
        html == Soup(r.content)
        pdf == PdfBranch(r, u)
    IN fret.final_url =
         FirstOf(<< r.headers["X-ScraperAPI-Final-Url"],
                    r.headers["X-Final-Url"],
                    r.headers["X-Target-Url"],
                    IF pdf THEN <<>> ELSE html.canonical,
                    IF pdf THEN <<>> ELSE html.og,
                    IF u.host = <<"news", "google", "com">> THEN u.q ELSE <<>>,
                    <<u>> >>)

C16_Witness ==
  /\ fret.kind = "payload"
  /\ fret.final_url = <<USubJunk>>
  /\ resp[1].content.og = <<USubJunk>>
  /\ freq[1].request_url = UNewsTo

\* C17 (as claimed): with FIRST_PARTY_ONLY, a document whose canonical host
\* is no press wire and no investor-relations host gives no payload, on
\* either branch.
C17_FirstPartyOnlyNoPayload ==
  (Answered /\ fcfg.FIRST_PARTY_ONLY
     /\ ~_is_wire_or_first_party(_host(FinalUrlOfCall))) =>
    fret.kind # "payload"

\* a document text extraction fails on or finds nothing in
Unparseable ==
  LET r == resp[1]
  IN IF PdfBranch(r, freq[1].request_url)
       THEN r.content.kind # "pdf" \/ ~r.content.figures
       ELSE Soup(r.content).h1 = "" /\ ~Soup(r.content).figures

\* C18 (as claimed): for a document that cannot be parsed and that domain
\* policy lets through, the call returns a payload with the final URL and
\* the caller's title hint.
C18_MinimalPayload ==
  (Answered /\ Unparseable
     /\ ~is_blocked_domain(FinalUrlOfCall)
     /\ (fcfg.FIRST_PARTY_ONLY => _is_wire_or_first_party(_host(FinalUrlOfCall)))) =>
    /\ fret.kind = "payload"
    /\ fret.final_url = <<FinalUrlOfCall>>
    /\ fret.headline = freq[1].title_hint

\* C15 (as claimed): the filter of the loop drops no candidate for the host
\* of the URL it was found under: whenever it drops one, the title, the
\* date or the year guard is the reason.
C15_NoPolicyOnRequestUrl ==
  [][(pc = "item" /\ pc' = "item" /\ batch # <<>> /\ batch' = Tail(batch)
        /\ ~Passes(Head(batch))) =>
       \/ year_guard(Head(batch))
       \/ ~is_recent(Head(batch))
       \/ ~is_results_like(Head(batch).title)]_vars

\* C13 (as claimed): a response with status 5xx is retried like 403 and
\* 429, so get() ends with such a status only when max_retries requests
\* were sent.
C13_RetriesOn5xx ==
  (gpc = "raised" /\ status \in {500, 503}) =>
    attempts = client[1].max_retries

\* C19 (as claimed): _extract_numbers returns an entry for each of the four
\* KPIs; a KPI whose label-plus-value pattern does not occur in the capped
\* prefix has "Not found" as current; and a current that was found occurs
\* literally in the text.
C19_CurrentFromText ==
  out # <<>> =>
    /\ DOMAIN out[1] = {"revenue", "ebitda", "net_income", "eps"}
    /\ \A k \in DOMAIN out[1] :
         /\ SearchCurrent(k, Prefix(text)) = <<>> => out[1][k].current = NotFound
         /\ out[1][k].current # NotFound => Contains(text, out[1][k].current)

\* the year-over-year percentages of a text: where a percentage that is
\* followed by the phrase starts
YoyMentions(t) ==
  {j \in 1..Len(t) : /\ YoyValue(t, j) # 0
                     /\ ~IsDigit(At(t, j - 1))
                     /\ At(t, j - 1) \notin {"+", "-", "."}}

\* characters between the span m of a current match and a percentage [j, e)
Distance(m, j, e) ==
  IF e <= m[1] THEN m[1] - e
  ELSE IF m[2] <= j THEN j - m[2]
  ELSE 0

\* C20 (as claimed): for some width of the window, a KPI's yoy is a
\* year-over-year percentage that lies within that many characters of the
\* KPI's current match, on either side, when there is one, and stays "n/a"
\* when there is none.
C20_YoyWithinWindow ==
  out # <<>> =>
    \A k \in DOMAIN out[1] :
      \E w \in 0..Len(text) :
        LET m == SearchCurrent(k, Prefix(text))
            inside == IF m = <<>> THEN {}
                      ELSE {j \in YoyMentions(text) :
                              Distance(m, j, YoyValue(text, j)) <= w}
        IN IF inside = {} THEN out[1][k].yoy = NA
           ELSE \E j \in inside :
                  out[1][k].yoy = _norm(Group(text, <<j, YoyValue(text, j)>>))

\* C26 (as claimed): whatever the server answers, get() sends at most
\* max_retries requests, returns only a response that is neither throttled
\* nor an error, and otherwise raises an HTTP error (a request the
\* transport itself fails, by timeout or lost connection, is no answer of
\* the server).
C26_ReturnsOrRaisesHttpError ==
  client # <<>> =>
    /\ attempts <= client[1].max_retries
    /\ gpc = "returned" => status \notin RetryStatuses \cup ErrorStatuses
    /\ (gpc = "raised" /\ exc \notin {"Timeout", "ConnectionError"}) =>
         exc = "HTTPError"

\* a title contains an entry of FINANCIAL_NEWS_KEYWORDS, compared
\* case-insensitively
HasKeyword(title) ==
  \E k \in FINANCIAL_NEWS_KEYWORDS : Contains(LowerStr(title), LowerStr(k))

\* C29 (as claimed): with strict earnings keywords enabled, the item the
\* loop is about to filter has is_results_like(title) true exactly when its
\* title contains a keyword ignoring case, so an item with such a title
\* that passes the other four conditions passes the filter.
C29_KeywordTitlesPass ==
  (pc = "item" /\ batch # <<>> /\ config.strict) =>
    LET item == Head(batch) IN
    /\ is_results_like(item.title) <=> HasKeyword(item.title)
    /\ ( /\ HasKeyword(item.title)
         /\ domain_allowed(item.url, config.good_wire_domains)
         /\ in_good_sources(item.url)
         /\ ~year_guard(item)
         /\ is_recent(item) ) => Passes(item)

\* C27 (as claimed): an id is recorded only when its email was delivered to
\* the transport; after a dry run or a failed send it stays unrecorded.
C27_RecordedOnlyIfDelivered ==
  [][\A i \in LoopIds :
       (pc # "down" /\ i \in seen' /\ i \notin seen) => outcome = "sent"]_vars

\* C27 (amended): send_email returns normally whatever happened to the mail
\* (logged on a dry run, taken by the transport, or its failure logged),
\* and the step after it records the candidate's id in every one of these
\* cases and goes on to the next item.
C27_RecordedWhateverOutcome ==
  [][(pc = "mark" /\ pc' # "down") =>
       /\ outcome \in {"dry_run", "sent", "failed"}
       /\ make_id(cur[1]) \in seen'
       /\ pc' = "item"]_vars

C27_Witness ==
  /\ pc = "item"
  /\ config.dry_run
  /\ <<"a">> \in seen
  /\ calls[<<"a">>] >= 1

\* a body contains a challenge phrase, in any case
HasChallengePhrase(html) ==
  \E n \in 1..Len(BOTWALL_SIGNS) :
    Contains([i \in 1..Len(html) |-> Fold(html[i])], BOTWALL_SIGNS[n])

\* C30: looks_like_botwall is true for the empty body and for a body with a
\* challenge phrase, false for any other body, whatever the body's length;
\* the copy in fetchers.py returns the same.
C30_BotwallByPhraseOnly ==
  wall # <<>> =>
    /\ wall[1] = (body = <<>> \/ HasChallengePhrase(body))
    /\ wall[2] = wall[1]

C30_Witness ==
  /\ wall # <<>>
  /\ Len(body) >= BotwallShort
  /\ HasChallengePhrase(body)
  /\ wall[1]

\* a title contains tok as a token: not inside a longer word
HasToken(t, tok) ==
  \E i \in 1..Len(t) :
    /\ i + Len(tok) - 1 <= Len(t)
    /\ SubSeq(t, i, i + Len(tok) - 1) = tok
    /\ ~IsWord(Lower(At(t, i - 1)))
    /\ ~IsWord(Lower(At(t, i + Len(tok))))

TokenQ2 == <<"Q", "2", " ", "2", "0", "2", "5">>
TokenQ1 == <<"Q", "1", " ", "2", "0", "2", "4">>
TokenFY == <<"F", "Y", "2", "0", "2", "5">>
TokenFullYear == <<"F", "u", "l", "l", " ", "Y", "e", "a", "r", " ", "2", "0", "2", "5">>

\* C21 (as claimed): for the press release of the example the numbers are
\* revenue.current "$120.5 million", revenue.yoy "up 12%", ebitda.current
\* "$30.2 million", no ebitda.yoy, and the period is "Q2 2025".
C21_ReleaseExample ==
  (title_hint = ReleaseTitle /\ text = ReleaseText /\ out # <<>> /\ period # <<>>) =>
    /\ out[1]["revenue"].current = <<"$", "1", "2", "0", ".", "5", " ", "m", "i", "l", "l", "i", "o", "n">>
    /\ out[1]["revenue"].yoy = <<"u", "p", " ", "1", "2", "%">>
    /\ out[1]["ebitda"].current = <<"$", "3", "0", ".", "2", " ", "m", "i", "l", "l", "i", "o", "n">>
    /\ out[1]["ebitda"].yoy = NA
    /\ period[1] = <<"Q", "2", " ", "2", "0", "2", "5">>

C23_TitleBeforeText ==
  (period # <<>> /\ detect_period_key(title_hint, <<>>) # None) =>
    period[1] = detect_period_key(title_hint, <<>>)

\* C25: geo_breakdown and product_breakdown hold only lines that are under
\* the length cap, have a geography (product) token and an amount or a
\* percentage and no mention of buybacks or repurchases; the lines are in
\* document order, and neither list grows beyond a small fixed cap however
\* many lines qualify.  The code names no cap: the one taken here is the
\* largest that still caps some text of MaxLines lines.
BreakdownCap == MaxLines - 1

RECURSIVE IsSubseq(_, _)
IsSubseq(a, b) ==
  IF a = <<>> THEN TRUE
  ELSE IF b = <<>> THEN FALSE
  ELSE IF Head(a) = Head(b) THEN IsSubseq(Tail(a), Tail(b))
  ELSE IsSubseq(a, Tail(b))

NormLines(t) == [n \in 1..Len(SplitLines(t)) |-> _norm(SplitLines(t)[n])]

QualifyingOnly(l, ws) ==
  \A n \in 1..Len(l) :
     /\ Len(l[n]) <= BreakdownMaxLen
     /\ TokenSearch(l[n], ws)
     /\ has_metric(l[n])
     /\ ~Buyback(l[n])

C25_BreakdownsQualifyInOrder ==
  lists # <<>> =>
    /\ QualifyingOnly(lists[1].geo_breakdown, GeoTokens)
    /\ QualifyingOnly(lists[1].product_breakdown, ProductTokens)
    /\ IsSubseq(lists[1].geo_breakdown, NormLines(text))
    /\ IsSubseq(lists[1].product_breakdown, NormLines(text))

C25_BreakdownsCapped ==
  lists # <<>> =>
    /\ C25_BreakdownsQualifyInOrder
    /\ Len(lists[1].geo_breakdown) <= BreakdownCap
    /\ Len(lists[1].product_breakdown) <= BreakdownCap

\* C24: for every article root and host the list _extract_highlights returns
\* has at most MAX_HIGHLIGHTS entries, no two of them equal ignoring case,
\* and the entries stand in the order in which the document first shows them.
NormTexts(els) == [n \in 1..Len(els) |-> _norm(Strip(els[n].text))]

NoCaseDuplicates(l) ==
  \A i, j \in 1..Len(l) : i < j => LowerStr(l[i]) # LowerStr(l[j])

C24_DedupedInOrder ==
  key_highlights # <<>> =>
    /\ NoCaseDuplicates(key_highlights[1])
    /\ IsSubseq(key_highlights[1], NormTexts(article_root))
    /\ Len(key_highlights[1]) <= HighlightCap

C24_HighlightsWithinConfiguredCap ==
  key_highlights # <<>> =>
    /\ Len(key_highlights[1]) <= MAX_HIGHLIGHTS
    /\ NoCaseDuplicates(key_highlights[1])
    /\ IsSubseq(key_highlights[1], NormTexts(article_root))

\* C28: over runs of edgar_watcher.run that share one seen_db, whatever
\* fetches and calls of emit fail, a filing key is emitted at most once, a
\* key is in seen_db only after emit was called for it, a filing whose
\* primary-document and index fetches both failed is left out of seen_db,
\* and a row is passed over as seen only when its key is in seen_db, so that
\* a later run fetches the unmarked filing again.
C28_EmittedOnceMarkedAfterEmit ==
  /\ ~mark_raised => \A k \in EdgarKeys : emitted[k] <= 1
  /\ seen_db \subseteq emit_called
  /\ last_filing # <<>> =>
       /\ last_filing[1].how = "fetches_failed" => last_filing[1].key \notin seen_db
       /\ last_filing[1].how = "seen" => last_filing[1].key \in seen_db

\* a filing given up in one turn and emitted once, and marked, in a later one
C28_Witness ==
  \E k \in gave_up :
     /\ k \in seen_db
     /\ emitted[k] = 1
     /\ ~mark_raised
     /\ edgar_runs = MaxEdgarRuns

\* the same without the condition on seen_db.mark
C28_EmittedOnceWhateverMarkDoes == \A k \in EdgarKeys : emitted[k] <= 1

====
